---------------------------- MODULE Spec2Model ----------------------------
(***************************************************************************)
(* A model of the OBRA upgrade calculator: the running points pass         *)
(* (upgrades.sum_points), the points schedule (upgrades.get_points_        *)
(* schedule, recalculate_points) and the rank pass (rankings.              *)
(* calculate_race_ranks, get_rank).                                        *)
(*                                                                         *)
(* Dates are day numbers counted from 1970-01-01 (day 0).  Python 3        *)
(* arithmetic is assumed: "/" is true division.  Non-integer quantities    *)
(* of the rank pass are kept as exact integers over a common scale.        *)
(***************************************************************************)
EXTENDS Integers, Sequences, FiniteSets, TLC

(***************************************************************************)
(* Bounds of the model.                                                    *)
(***************************************************************************)
MaxResults == 3

(***************************************************************************)
(* data.py                                                                 *)
(***************************************************************************)
SCHEDULE_2019_DATE == 18139

\* A variant of Tier whose range reaches one starter further.
Tier_Wide(lo, hi, pts) == [min |-> lo, max |-> hi + 1, points |-> pts]

Tier(lo, hi, pts) == [min |-> lo, max |-> hi, points |-> pts]

SCHEDULE_2019 ==
    [cyclocross |->
        [open  |-> << Tier(10, 25, <<3, 2, 1>>),
                      Tier(26, 40, <<5, 4, 3, 2, 1>>),
                      Tier(41, 75, <<7, 6, 5, 4, 3, 2, 1>>),
                      Tier(76, 999, <<10, 8, 7, 5, 4, 3, 2, 1>>) >>,
         women |-> << Tier(6, 15, <<3, 2, 1>>),
                      Tier(16, 25, <<5, 4, 3, 2, 1>>),
                      Tier(26, 60, <<7, 6, 5, 4, 3, 2, 1>>),
                      Tier(61, 999, <<10, 8, 7, 5, 4, 3, 2, 1>>) >>],
     circuit |->
        [open  |-> << Tier(5, 10, <<3, 2, 1>>),
                      Tier(11, 20, <<4, 3, 2, 1>>),
                      Tier(21, 49, <<5, 4, 3, 2, 1>>),
                      Tier(50, 999, <<7, 5, 4, 3, 2, 1>>) >>],
     criterium |->
        [open  |-> << Tier(5, 10, <<3, 2, 1>>),
                      Tier(11, 20, <<4, 3, 2, 1>>),
                      Tier(21, 49, <<5, 4, 3, 2, 1>>),
                      Tier(50, 999, <<7, 5, 4, 3, 2, 1>>) >>],
     road |->
        [open  |-> << Tier(5, 10, <<3, 2, 1>>),
                      Tier(11, 20, <<7, 5, 4, 3, 2, 1>>),
                      Tier(21, 49, <<8, 6, 5, 4, 3, 2, 1>>),
                      Tier(50, 999, <<10, 8, 7, 6, 5, 4, 3, 2, 1>>) >>],
     tour |->
        [open  |-> << Tier(10, 19, <<5, 3, 2, 1>>),
                      Tier(20, 35, <<7, 5, 3, 2, 1>>),
                      Tier(36, 49, <<10, 8, 6, 5, 4, 3, 2, 1>>),
                      Tier(50, 999, <<20, 18, 16, 14, 12, 10, 9, 8, 7, 6, 5, 4, 3, 2, 1>>) >>]]

SCHEDULE_2018 ==
    [cyclocross |->
        [open  |-> << Tier(10, 15, <<3, 2, 1>>),
                      Tier(16, 25, <<5, 4, 3, 2, 1>>),
                      Tier(26, 60, <<7, 6, 5, 4, 3, 2, 1>>),
                      Tier(61, 999, <<10, 8, 7, 5, 4, 3, 2, 1>>) >>,
         women |-> << Tier(6, 10, <<3, 2, 1>>),
                      Tier(11, 20, <<5, 4, 3, 2, 1>>),
                      Tier(21, 50, <<7, 6, 5, 4, 3, 2, 1>>),
                      Tier(51, 999, <<10, 8, 7, 5, 4, 3, 2, 1>>) >>],
     circuit |->
        [open  |-> << Tier(5, 10, <<3, 2, 1>>),
                      Tier(11, 20, <<4, 3, 2, 1>>),
                      Tier(21, 49, <<5, 4, 3, 2, 1>>),
                      Tier(50, 999, <<7, 5, 4, 3, 2, 1>>) >>],
     criterium |->
        [open  |-> << Tier(5, 10, <<3, 2, 1>>),
                      Tier(11, 20, <<4, 3, 2, 1>>),
                      Tier(21, 49, <<5, 4, 3, 2, 1>>),
                      Tier(50, 999, <<7, 5, 4, 3, 2, 1>>) >>],
     road |->
        [open  |-> << Tier(5, 10, <<3, 2, 1>>),
                      Tier(11, 20, <<7, 5, 4, 3, 2, 1>>),
                      Tier(21, 49, <<8, 6, 5, 4, 3, 2, 1>>),
                      Tier(50, 999, <<10, 8, 7, 6, 5, 4, 3, 2, 1>>) >>],
     tour |->
        [open  |-> << Tier(10, 19, <<5, 3, 2, 1>>),
                      Tier(20, 35, <<7, 5, 3, 2, 1>>),
                      Tier(36, 49, <<10, 8, 6, 5, 4, 3, 2, 1>>),
                      Tier(50, 999, <<20, 18, 16, 14, 12, 10, 9, 8, 7, 6, 5, 4, 3, 2, 1>>) >>]]

\* An entry of UPGRADES is a function from its keys to numbers; the keys an
\* entry has differ between disciplines ('max' is missing for track).
UPGRADES ==
    [cyclocross |->
        (4 :> [min |-> 0, max |-> 20] @@
         3 :> [min |-> 0, max |-> 20] @@
         2 :> [min |-> 20, max |-> 20] @@
         1 :> [min |-> 20, max |-> 35]),
     mountain_bike |->
        (3 :> [podiums |-> 0] @@
         2 :> [podiums |-> 3] @@
         1 :> [podiums |-> 3] @@
         0 :> [podiums |-> 5]),
     track |->
        (4 :> [min |-> 0, races |-> 4] @@
         3 :> [min |-> 20, races |-> 5] @@
         2 :> [min |-> 25, races |-> 5] @@
         1 :> [min |-> 30, races |-> 5]),
     road |->
        (4 :> [min |-> 15, max |-> 25, races |-> 10] @@
         3 :> [min |-> 20, max |-> 30, races |-> 25] @@
         2 :> [min |-> 25, max |-> 40] @@
         1 :> [min |-> 30, max |-> 50])]

DISCIPLINE_MAP ==
    [road          |-> {"road", "circuit", "criterium", "gravel", "time_trial", "tour"},
     mountain_bike |-> {"mountain_bike", "downhill", "super_d", "short_track"},
     cyclocross    |-> {"cyclocross"},
     track         |-> {"track"}]

\* NUMBER_RE.match(place): a prefix match of [0-9]+|dnf|dq, case-insensitive.
\* Place strings of the model: decimal numbers, and the markers below.
NumericPlaces == {"1", "2", "3", "4", "5", "6", "7", "8", "9", "10", "11", "12"}

PlaceInt ==
    [pl \in NumericPlaces |->
        CASE pl = "1" -> 1 [] pl = "2" -> 2 [] pl = "3" -> 3 [] pl = "4" -> 4
          [] pl = "5" -> 5 [] pl = "6" -> 6 [] pl = "7" -> 7 [] pl = "8" -> 8
          [] pl = "9" -> 9 [] pl = "10" -> 10 [] pl = "11" -> 11 [] pl = "12" -> 12]

\* Place strings that begin with digits and go on with something else.
DigitPrefixed == {"1st"}

\* The decimal number such a string begins with.
LeadingDigits == [pl \in DigitPrefixed |-> "1"]

\* A variant of NUMBER_RE that takes the DNS marker as well.
NUMBER_RE_WithDns(place) ==
    place \in NumericPlaces \cup DigitPrefixed \cup {"dnf", "dq", "DNF", "DQ", "dns", "DNS"}

NUMBER_RE(place) == place \in NumericPlaces \cup DigitPrefixed \cup {"dnf", "dq", "DNF", "DQ"}

\* int(place) raises ValueError unless the string is a decimal number.
int_raises(place) == place \notin NumericPlaces


(***************************************************************************)
(* Small helpers for Python built-ins.                                     *)
(***************************************************************************)
Max(S) == CHOOSE x \in S : \A y \in S : y <= x

Min(S) == CHOOSE x \in S : \A y \in S : x <= y

SeqToSet(s) == {s[i] : i \in DOMAIN s}

RECURSIVE SumValues(_)
SumValues(s) == IF s = <<>> THEN 0 ELSE Head(s).value + SumValues(Tail(s))

\* SQLite CAST(place AS INTEGER): the leading digits, 0 when there are none.
CastInteger(place) ==
    IF place \in NumericPlaces THEN PlaceInt[place]
    ELSE IF place \in DigitPrefixed THEN PlaceInt[LeadingDigits[place]]
    ELSE 0

\* safe_int(value): int(value), 999 when int() raises.
safe_int(place) == IF place \in NumericPlaces THEN PlaceInt[place] ELSE 999

(***************************************************************************)
(* Race names.  The code reads two things from a name: whether its lower-  *)
(* cased text contains "women" (sum_points) and whether it matches         *)
(* women|junior (get_points_schedule).                                     *)
(***************************************************************************)
RaceNames == {"Category Men", "Category Women", "Junior Men"}

NameHasWomen(name) == name \in {"Category Women"}

NameIsWomenField(name) == name \in {"Category Women", "Junior Men"}

(***************************************************************************)
(* upgrades.get_points_schedule                                            *)
(***************************************************************************)
RECURSIVE FirstTier(_, _)
FirstTier(field_size_list, starters) ==
    IF field_size_list = <<>> THEN <<>>
    ELSE IF starters >= Head(field_size_list).min /\ starters <= Head(field_size_list).max
         THEN Head(field_size_list).points
         ELSE FirstTier(Tail(field_size_list), starters)

\* A variant of get_points_schedule: a discipline without a schedule is scored as road.
get_points_schedule_AsRoad(event_discipline, race) ==
    LET field == IF NameIsWomenField(race.name) THEN "women" ELSE "open"
        schedule == IF race.date >= SCHEDULE_2019_DATE THEN SCHEDULE_2019 ELSE SCHEDULE_2018
        known == IF event_discipline \in DOMAIN schedule THEN event_discipline ELSE "road"
        field_size_list ==
            IF field \in DOMAIN schedule[known]
            THEN schedule[known][field]
            ELSE schedule[known]["open"]
    IN  FirstTier(field_size_list, race.starters)

\* A variant of get_points_schedule: the 2019 schedule starts a day late.
get_points_schedule_After(event_discipline, race) ==
    LET field == IF NameIsWomenField(race.name) THEN "women" ELSE "open"
        schedule == IF race.date > SCHEDULE_2019_DATE THEN SCHEDULE_2019 ELSE SCHEDULE_2018
    IN  IF event_discipline \in DOMAIN schedule
        THEN LET field_size_list ==
                     IF field \in DOMAIN schedule[event_discipline]
                     THEN schedule[event_discipline][field]
                     ELSE schedule[event_discipline]["open"]
             IN  FirstTier(field_size_list, race.starters)
        ELSE <<>>

get_points_schedule(event_discipline, race) ==
    LET field == IF NameIsWomenField(race.name) THEN "women" ELSE "open"
        schedule == IF race.date >= SCHEDULE_2019_DATE THEN SCHEDULE_2019 ELSE SCHEDULE_2018
    IN  IF event_discipline \in DOMAIN schedule
        THEN LET field_size_list ==
                     IF field \in DOMAIN schedule[event_discipline]
                     THEN schedule[event_discipline][field]
                     ELSE schedule[event_discipline]["open"]
             IN  FirstTier(field_size_list, race.starters)
        ELSE <<>>

\* A Points row as Points.insert / Points.create leaves it (models.Points defaults).
NewPoints(v) ==
    [value |-> v, notes |-> {}, needs_upgrade |-> FALSE, sum_value |-> 0, sum_categories |-> {}]

\* recalculate_points for one result: the list of Points rows (none or one)
\* the result has once the pass has run.  valid_name is NAME_RE matching both names.
RecalculatedPoints(race, place, valid_name) ==
    LET points == get_points_schedule(race.discipline, race)
    IN  IF /\ race.categories # <<>>
           /\ points # <<>>
           /\ CastInteger(place) > 0
           /\ CastInteger(place) <= Len(points)
           /\ valid_name
        THEN << NewPoints(points[CastInteger(place)]) >>
        ELSE <<>>

(***************************************************************************)
(* upgrades.needs_upgrade, can_upgrade, expire_points                      *)
(***************************************************************************)
\* The exception needs_upgrade raises, "" when it returns.
needs_upgrade_raises(upgrade_discipline, categories) ==
    IF categories = {} THEN "ValueError"
    ELSE LET category == Max(categories) - 1
         IN  IF /\ upgrade_discipline \in DOMAIN UPGRADES
                /\ category \in DOMAIN UPGRADES[upgrade_discipline]
                /\ "podiums" \notin DOMAIN UPGRADES[upgrade_discipline][category]
                /\ category # 0
                /\ "max" \notin DOMAIN UPGRADES[upgrade_discipline][category]
             THEN "KeyError"
             ELSE ""

\* A variant of PodiumRace that counts the first five places.
PodiumRace_TopFive(p) == safe_int(p.place) <= 5

PodiumRace(p) == safe_int(p.place) <= 3

needs_upgrade(upgrade_discipline, points_sum, categories, cat_points) ==
    LET category == Max(categories) - 1
    IN  IF upgrade_discipline \in DOMAIN UPGRADES /\ category \in DOMAIN UPGRADES[upgrade_discipline]
        THEN IF "podiums" \in DOMAIN UPGRADES[upgrade_discipline][category]
             THEN Len(SelectSeq(cat_points, PodiumRace)) >= UPGRADES[upgrade_discipline][category].podiums
             ELSE IF category = 0 THEN FALSE
                  ELSE points_sum >= UPGRADES[upgrade_discipline][category].max
        ELSE FALSE

can_upgrade(upgrade_discipline, points_sum, category, cat_points, check_min_races) ==
    IF upgrade_discipline \in DOMAIN UPGRADES /\ category \in DOMAIN UPGRADES[upgrade_discipline]
    THEN LET entry == UPGRADES[upgrade_discipline][category]
         IN  IF "podiums" \in DOMAIN entry
             THEN category > 0
             ELSE IF /\ check_min_races
                     /\ "races" \in DOMAIN entry
                     /\ entry.races # 0
                     /\ Len(cat_points) >= entry.races
                  THEN TRUE
                  ELSE points_sum >= entry.min
    ELSE TRUE

\* The entries expire_points keeps: those at most 372 days older than race_date.
ExpiryDays == 372

\* A variant of KeptPoints that drops the entry exactly ExpiryDays old.
KeptPoints_OffByOne(points, race_date) ==
    LET Keep(p) == (race_date - p.date) < ExpiryDays
    IN  SelectSeq(points, Keep)

KeptPoints(points, race_date) ==
    LET Keep(p) == (race_date - p.date) <= ExpiryDays
    IN  SelectSeq(points, Keep)

\* The sum expire_points returns: the values of the entries it removes.
expire_points(points, race_date) ==
    LET Gone(p) == (race_date - p.date) > ExpiryDays
    IN  SumValues(SelectSeq(points, Gone))

(***************************************************************************)
(* upgrades.sum_points: one pass over the results of a discipline, in the  *)
(* order of its query.  The locals of the loop are the variables below;    *)
(* result is the row the loop is at, with its race and its Points rows.    *)
(***************************************************************************)
VARIABLES upgrade_discipline, person, is_woman, cat_points, categories,
          prev_race_categories, upgrade_notes, upgrade_race, result, rule,
          raised, processed

sumVars == << upgrade_discipline, person, is_woman, cat_points, categories,
              prev_race_categories, upgrade_notes, upgrade_race, result, rule,
              raised, processed >>

\* The state of the rank pass (calculate_race_ranks): the Rank and Quality
\* tables, the race the loop is at with its figures, and where the pass is.
VARIABLES rank_discipline, ranks, qualities, rank_race, rated, rank_pc

rankVars == << rank_discipline, ranks, qualities, rank_race, rated, rank_pc >>

\* The state of a full recompute (commands.cli): the Race/Result rows it reads,
\* the Points table, the OBRA snapshots, where the transaction is, the tables
\* as the transaction found them, the number of the run, the tables the first
\* run committed and how the last run failed.
VARIABLES db, points, snapshots, tx_pc, tx_saved, run, first, failure

recVars == << db, points, snapshots, tx_pc, tx_saved, run, first, failure >>

\* A call of one of the functions taken alone: its arguments with what it
\* reads, and what it returns and leaves behind.
VARIABLES call, ret

fnVars == << call, ret >>

UpgradeDisciplines == DOMAIN DISCIPLINE_MAP

\* Person rows: id, last_name, first_name.  The query orders by the names.
Persons == {1}

\* The position of a person's (last_name, first_name) in the NOCASE collation;
\* persons of the same name share it.
NameRank == (1 :> 1)

NoPerson == 0

\* A note of upgrade_notes: the format string and the numbers formatted into it.
Note(text, n, m) == [text |-> text, n |-> n, m |-> m]

DummyNote == Note("", 0, 0)

NEEDS_UPGRADE == Note("NEEDS UPGRADE", 0, 0)

NO_POINTS == Note("NO POINTS FOR RACING BELOW CATEGORY", 0, 0)

ExpiredNote(expired_points) ==
    Note(IF expired_points = 1 THEN "{} POINT HAS EXPIRED" ELSE "{} POINTS HAVE EXPIRED",
         expired_points, 0)

\* A variant of UpgradedNote that formats the sum of the ledger once it is cleared.
UpgradedNote_AfterClear(category, points_sum) == Note("UPGRADED TO {} WITH {} POINTS", category, 0)

UpgradedNote(category, points_sum) == Note("UPGRADED TO {} WITH {} POINTS", category, points_sum)

PrematureNote(category, points_sum) ==
    Note("PREMATURELY UPGRADED TO {} WITH {} POINTS", category, points_sum)

DowngradedNote(category) == Note("DOWNGRADED TO {}", category, 0)

\* Race(date=date(1970, 1, 1)): an unsaved Race, equal to no stored Race.
NoRace == [id |-> 0, date |-> 0]

ELITE == {<<1>>, <<1, 2>>, <<1, 2, 3>>}

\* The locals of the loop body as one record.
Locals ==
    [person |-> person, is_woman |-> is_woman, cat_points |-> cat_points,
     categories |-> categories, prev_race_categories |-> prev_race_categories,
     upgrade_notes |-> upgrade_notes, upgrade_race |-> upgrade_race,
     points |-> <<>>, raised |-> "", rule |-> "none"]

\* Lines 124-131: the person changes, the stats are reset.
ResetPerson(L, res) ==
    IF L.person # res.person
    THEN [L EXCEPT !.person = res.person, !.is_woman = FALSE, !.cat_points = <<>>,
                   !.categories = {9}, !.upgrade_notes = {},
                   !.prev_race_categories = <<>>, !.upgrade_race = NoRace]
    ELSE L

\* Lines 139-141.
ExpireStep(L, res) ==
    LET expired_points == expire_points(L.cat_points, res.race.date)
    IN  [L EXCEPT !.cat_points = KeptPoints(L.cat_points, res.race.date),
                  !.upgrade_notes = IF expired_points # 0
                                    THEN @ \cup {ExpiredNote(expired_points)}
                                    ELSE @]

\* Lines 165-179: the first categorised result of a rider.
Bootstrap(L, res, obra_category) ==
    LET R == res.race.categories
    IN  IF R \in ELITE
        THEN IF obra_category < 0
             THEN [L EXCEPT !.raised = "HTTPError", !.rule = "bootstrap_obra"]
             ELSE [L EXCEPT !.categories = IF obra_category \in SeqToSet(R)
                                           THEN {obra_category}
                                           ELSE {Max(SeqToSet(R))},
                            !.upgrade_notes = @ \cup {DummyNote},
                            !.rule = "bootstrap_obra"]
        ELSE [L EXCEPT !.categories = SeqToSet(R),
                       !.upgrade_notes = @ \cup {DummyNote},
                       !.rule = "bootstrap"]

\* A variant of OutOfBandUpgrade that moves the rider to the best category of the race.
OutOfBandUpgrade_MinR(L, res) ==
    LET R == SeqToSet(res.race.categories)
        points_sum == SumValues(L.cat_points)
        upgrade_note ==
            IF can_upgrade(upgrade_discipline, points_sum, Max(R), L.cat_points, TRUE)
            THEN UpgradedNote(Max(R), points_sum)
            ELSE PrematureNote(Max(R), points_sum)
    IN  [L EXCEPT !.cat_points = <<>>,
                  !.upgrade_notes = @ \cup {upgrade_note},
                  !.categories = {Min(R)},
                  !.upgrade_race = [id |-> res.race.id, date |-> res.race.date],
                  !.rule = "out_of_band"]

\* Lines 181-190: an upgrade the points did not announce.
OutOfBandUpgrade(L, res) ==
    LET R == SeqToSet(res.race.categories)
        points_sum == SumValues(L.cat_points)
        upgrade_note ==
            IF can_upgrade(upgrade_discipline, points_sum, Max(R), L.cat_points, TRUE)
            THEN UpgradedNote(Max(R), points_sum)
            ELSE PrematureNote(Max(R), points_sum)
    IN  [L EXCEPT !.cat_points = <<>>,
                  !.upgrade_notes = @ \cup {upgrade_note},
                  !.categories = {Max(R)},
                  !.upgrade_race = [id |-> res.race.id, date |-> res.race.date],
                  !.rule = "out_of_band"]

\* A variant of BelowCategory that notes the race below category and keeps the points.
BelowCategory_KeepsPoints(L, res) ==
    LET R == SeqToSet(res.race.categories)
        points_sum == SumValues(L.cat_points)
    IN  IF L.is_woman /\ ~NameHasWomen(res.race.name)
        THEN [L EXCEPT !.rule = "women_exempt"]
        ELSE IF points_sum = 0 /\ (res.race.date - L.upgrade_race.date) > 365
        THEN [L EXCEPT !.cat_points = <<>>,
                       !.upgrade_notes = @ \cup {DowngradedNote(Min(R))},
                       !.categories = {Min(R)},
                       !.upgrade_race = [id |-> res.race.id, date |-> res.race.date],
                       !.rule = "downgrade"]
        ELSE IF L.points # <<>>
        THEN [L EXCEPT !.upgrade_notes = @ \cup {NO_POINTS},
                       !.rule = "no_points"]
        ELSE [L EXCEPT !.rule = "below"]

\* A variant of BelowCategory without the exemption of lines 194-196.
BelowCategory_NoExemption(L, res) ==
    LET R == SeqToSet(res.race.categories)
        points_sum == SumValues(L.cat_points)
    IN  IF points_sum = 0 /\ (res.race.date - L.upgrade_race.date) > 365
        THEN [L EXCEPT !.cat_points = <<>>,
                       !.upgrade_notes = @ \cup {DowngradedNote(Min(R))},
                       !.categories = {Min(R)},
                       !.upgrade_race = [id |-> res.race.id, date |-> res.race.date],
                       !.rule = "downgrade"]
        ELSE IF L.points # <<>>
        THEN [L EXCEPT !.upgrade_notes = @ \cup {NO_POINTS},
                       !.points = << [L.points[1] EXCEPT !.value = 0] >>,
                       !.rule = "no_points"]
        ELSE [L EXCEPT !.rule = "below"]

\* Lines 194-205: a race below the rider's category.
BelowCategory(L, res) ==
    LET R == SeqToSet(res.race.categories)
        points_sum == SumValues(L.cat_points)
    IN  IF L.is_woman /\ ~NameHasWomen(res.race.name)
        THEN [L EXCEPT !.rule = "women_exempt"]
        ELSE IF points_sum = 0 /\ (res.race.date - L.upgrade_race.date) > 365
        THEN [L EXCEPT !.cat_points = <<>>,
                       !.upgrade_notes = @ \cup {DowngradedNote(Min(R))},
                       !.categories = {Min(R)},
                       !.upgrade_race = [id |-> res.race.id, date |-> res.race.date],
                       !.rule = "downgrade"]
        ELSE IF L.points # <<>>
        THEN [L EXCEPT !.upgrade_notes = @ \cup {NO_POINTS},
                       !.points = << [L.points[1] EXCEPT !.value = 0] >>,
                       !.rule = "no_points"]
        ELSE [L EXCEPT !.rule = "below"]

\* Lines 143-212: the category change logic.
CategoryChange(L, res, obra_category) ==
    IF NUMBER_RE(res.place) /\ res.race.categories # <<>>
    THEN IF L.categories = {}
         THEN [L EXCEPT !.raised = "ValueError"]
         ELSE
         LET R == SeqToSet(res.race.categories)
             upgrade_category == Max(L.categories) - 1
             points_sum == SumValues(L.cat_points)
             W == [L EXCEPT !.is_woman = @ \/ NameHasWomen(res.race.name)]
         IN  IF /\ upgrade_category \in R
                /\ can_upgrade(upgrade_discipline, points_sum, upgrade_category, W.cat_points, FALSE)
                /\ needs_upgrade_raises(upgrade_discipline, W.categories) # ""
             THEN [W EXCEPT !.raised = needs_upgrade_raises(upgrade_discipline, W.categories)]
             ELSE IF /\ upgrade_category \in R
                     /\ can_upgrade(upgrade_discipline, points_sum, upgrade_category, W.cat_points, FALSE)
                     /\ needs_upgrade(upgrade_discipline, points_sum, W.categories, W.cat_points)
                     /\ W.prev_race_categories # res.race.categories
             THEN [W EXCEPT !.upgrade_notes = @ \cup {UpgradedNote(upgrade_category, points_sum)},
                            !.cat_points = <<>>,
                            !.categories = {upgrade_category},
                            !.upgrade_race = [id |-> res.race.id, date |-> res.race.date],
                            !.rule = "upgrade"]
             ELSE IF W.categories \cap R = {} /\ Min(W.categories) > Min(R)
             THEN IF W.categories = {9}
                  THEN Bootstrap(W, res, obra_category)
                  ELSE OutOfBandUpgrade(W, res)
             ELSE IF W.categories \cap R = {} /\ Max(W.categories) < Max(R)
             THEN BelowCategory(W, res)
             ELSE IF /\ Cardinality(W.categories \cap R) < Cardinality(W.categories)
                     /\ Cardinality(W.categories) > 1
             THEN [W EXCEPT !.categories = @ \cap R,
                            !.upgrade_notes = @ \cup {DummyNote},
                            !.rule = "refine"]
             ELSE W
    ELSE [L EXCEPT !.rule = "skip"]

\* A variant of AppendPoint that enters every result with no points.
AppendPoint_Zero(L, res) ==
    [L EXCEPT !.cat_points = Append(@, [value |-> 0, place |-> res.place, date |-> res.race.date])]

\* Line 214; result_points_value() is the value of the result's Points row, 0 without one.
AppendPoint(L, res) ==
    LET result_points_value == IF L.points # <<>> THEN L.points[1].value ELSE 0
    IN  [L EXCEPT !.cat_points =
             Append(@, [value |-> result_points_value, place |-> res.place, date |-> res.race.date])]

\* The text of Points.notes: the non-empty notes, capitalised, sorted and joined;
\* kept as the set of the notes joined.
JoinedNotes(notes) == {n \in notes : n.text # ""}

\* A variant of EnsurePoints that does not count the dummy note ''.
EnsurePoints_NonEmptyNotes(L, res) ==
    IF (L.upgrade_race.id = res.race.id \/ JoinedNotes(L.upgrade_notes) # {}) /\ L.points = <<>>
    THEN [L EXCEPT !.points = << NewPoints(0) >>]
    ELSE L

\* Lines 216-217: a row is created for a result that has notes or changed the category.
EnsurePoints(L, res) ==
    IF (L.upgrade_race.id = res.race.id \/ L.upgrade_notes # {}) /\ L.points = <<>>
    THEN [L EXCEPT !.points = << NewPoints(0) >>]
    ELSE L

\* A variant of SavePoints that flags the row and leaves the note out.
SavePoints_NoNote(L, res) ==
    IF L.points = <<>> THEN L
    ELSE IF needs_upgrade_raises(upgrade_discipline, L.categories) # ""
    THEN [L EXCEPT !.raised = needs_upgrade_raises(upgrade_discipline, L.categories)]
    ELSE
    LET points_sum == SumValues(L.cat_points)
        needs == needs_upgrade(upgrade_discipline, points_sum, L.categories, L.cat_points)
        row == [L.points[1] EXCEPT !.needs_upgrade = @ \/ needs,
                                   !.sum_categories = L.categories,
                                   !.sum_value = points_sum,
                                   !.notes = IF L.upgrade_notes # {}
                                             THEN JoinedNotes(L.upgrade_notes) ELSE @]
    IN  [L EXCEPT !.points = << row >>, !.upgrade_notes = {}]

\* Lines 219-231.
SavePoints(L, res) ==
    IF L.points = <<>> THEN L
    ELSE IF needs_upgrade_raises(upgrade_discipline, L.categories) # ""
    THEN [L EXCEPT !.raised = needs_upgrade_raises(upgrade_discipline, L.categories)]
    ELSE
    LET points_sum == SumValues(L.cat_points)
        needs == needs_upgrade(upgrade_discipline, points_sum, L.categories, L.cat_points)
        notes == IF needs THEN L.upgrade_notes \cup {NEEDS_UPGRADE} ELSE L.upgrade_notes
        row == [L.points[1] EXCEPT !.needs_upgrade = @ \/ needs,
                                   !.sum_categories = L.categories,
                                   !.sum_value = points_sum,
                                   !.notes = IF notes # {} THEN JoinedNotes(notes) ELSE @]
    IN  [L EXCEPT !.points = << row >>, !.upgrade_notes = {}]

\* A variant of LoopBody without the assignment of line 233.
LoopBody_KeepsPrev(L0, res, obra_category) ==
    LET L1 == ExpireStep(ResetPerson(L0, res), res)
        L2 == CategoryChange([L1 EXCEPT !.points = res.points], res, obra_category)
    IN  IF L2.raised # "" THEN L2
        ELSE SavePoints(EnsurePoints(AppendPoint(L2, res), res), res)

\* One turn of the loop, lines 122-233; an exception ends the turn where it is raised.
LoopBody(L0, res, obra_category) ==
    LET L1 == ExpireStep(ResetPerson(L0, res), res)
        L2 == CategoryChange([L1 EXCEPT !.points = res.points], res, obra_category)
    IN  IF L2.raised # "" THEN L2
        ELSE LET L5 == SavePoints(EnsurePoints(AppendPoint(L2, res), res), res)
             IN  IF L5.raised # "" THEN L5
                 ELSE [L5 EXCEPT !.prev_race_categories = res.race.categories]

(***************************************************************************)
(* The rows the pass can meet.  Race dates span the 365- and 372-day       *)
(* limits (18001 + 365 = 18366, 18001 + 372 = 18373) and the schedule      *)
(* change of 2019-08-31.                                                   *)
(***************************************************************************)
RaceDays == {18000, 18001, 18366, 18373}

Field(name, cats, starters) == [name |-> name, categories |-> cats, starters |-> starters]

Fields ==
    { Field("Category Men", <<4>>, 80),
      Field("Category Men", <<3, 4>>, 80),
      Field("Category Men", <<3, 5>>, 80),
      Field("Category Men", <<1, 2>>, 80),
      Field("Category Women", <<5>>, 4),
      Field("Category Men", <<>>, 80) }

Places == {"1", "dnf"}

\* The event discipline of the races of a pass.
EventDiscipline ==
    [road |-> "tour", mountain_bike |-> "mountain_bike", cyclocross |-> "cyclocross", track |-> "track"]

\* category_for_discipline of the snapshot get_obra_data returns; -1: the fetch raises.
ObraOutcomes == {-1, 0, 1, 2, 3}

\* NAME_RE matches the first and last name of every person of the model.
ValidName(p) == p \in Persons

\* ORDER BY last_name, first_name, Race.date (created is the order of arrival).
InQueryOrder(p, day) ==
    IF person = NoPerson THEN TRUE
    ELSE \/ NameRank[result.person] < NameRank[p]
         \/ NameRank[result.person] = NameRank[p] /\ day >= result.race.date

SumStart(disciplines) ==
    /\ upgrade_discipline \in disciplines
    /\ person = NoPerson
    /\ is_woman = FALSE
    /\ cat_points = <<>>
    /\ categories = {9}
    /\ prev_race_categories = <<>>
    /\ upgrade_notes = {}
    /\ upgrade_race = NoRace
    /\ result = [id |-> 0, person |-> NoPerson, place |-> "",
                 race |-> [id |-> 0, name |-> "", date |-> 0, categories |-> <<>>,
                           starters |-> 0, discipline |-> ""],
                 points |-> <<>>]
    /\ rule = "init"
    /\ raised = ""
    /\ processed = 0

\* Whether the loop body asks the oracle for this result (line 170).
AsksObra(p, race, place) ==
    /\ NUMBER_RE(place)
    /\ race.categories \in ELITE
    /\ (IF person # p THEN {9} ELSE categories) = {9}

ProcessResult ==
    /\ raised = ""
    /\ processed < MaxResults
    /\ \E p \in Persons, day \in RaceDays, f \in Fields, place \in Places :
         /\ InQueryOrder(p, day)
         /\ LET race == [id |-> processed + 1, name |-> f.name, date |-> day,
                         categories |-> f.categories, starters |-> f.starters,
                         discipline |-> EventDiscipline[upgrade_discipline]]
                res == [id |-> processed + 1, person |-> p, place |-> place, race |-> race,
                        points |-> RecalculatedPoints(race, place, ValidName(p))]
            IN  \E obra_category \in IF AsksObra(p, race, place) THEN ObraOutcomes ELSE {0} :
                  \E L \in {LoopBody(Locals, res, obra_category)} :
                      /\ person' = L.person
                      /\ is_woman' = L.is_woman
                      /\ cat_points' = L.cat_points
                      /\ categories' = L.categories
                      /\ prev_race_categories' = L.prev_race_categories
                      /\ upgrade_notes' = L.upgrade_notes
                      /\ upgrade_race' = L.upgrade_race
                      \* sum_points is @db.atomic (line 81): an exception rolls back
                      \* the rows it wrote, the result keeps the rows it had
                      /\ result' = [res EXCEPT !.points = IF L.raised # "" THEN res.points
                                                         ELSE L.points]
                      /\ rule' = L.rule
                      /\ raised' = L.raised
                      /\ processed' = processed + 1
    /\ UNCHANGED << upgrade_discipline, rankVars, recVars, fnVars >>

(***************************************************************************)
(* rankings.get_rank and rankings.calculate_race_ranks.                    *)
(*                                                                         *)
(* A Rank row is kept with the columns the queries join to it: the person  *)
(* and the race date of its result and the upgrade discipline of its       *)
(* event.  get_rank is a fifth-part: the operator returns 5 x the Python   *)
(* value, and the figures of a race with n finishers are kept multiplied   *)
(* by Scale(n) = 250 n (n - 1), over which all of them are integers.       *)
(***************************************************************************)
MaxRaces == 3

DEFAULT_RANK == 600

RANK_CEILING == 590

RankWindowDays == 365

\* A variant of RankRowsInWindow whose window starts a day late.
RankRowsInWindow_LateStart(tbl, pid, discipline, end_date) ==
    {r \in tbl : /\ r.person = pid
                 /\ r.date > end_date - RankWindowDays
                 /\ r.date <= end_date
                 /\ r.discipline = discipline}

\* The rows get_rank's query selects: the person's, of the discipline, with
\* the race date in [end_date - 365, end_date].
RankRowsInWindow(tbl, pid, discipline, end_date) ==
    {r \in tbl : /\ r.person = pid
                 /\ r.date >= end_date - RankWindowDays
                 /\ r.date <= end_date
                 /\ r.discipline = discipline}

\* sorted(): insertion of x into an ascending sequence.
RECURSIVE InsertSorted(_, _)
InsertSorted(x, s) ==
    IF s = <<>> THEN <<x>>
    ELSE IF x <= Head(s) THEN <<x>> \o s
         ELSE <<Head(s)>> \o InsertSorted(x, Tail(s))

RECURSIVE Sorted(_)
Sorted(s) == IF s = <<>> THEN <<>> ELSE InsertSorted(Head(s), Sorted(Tail(s)))

RECURSIVE SumSeq(_)
SumSeq(s) == IF s = <<>> THEN 0 ELSE Head(s) + SumSeq(Tail(s))

\* The values of a set of rows as a list (json_group_array).
RECURSIVE RowValues(_)
RowValues(rows) ==
    IF rows = {} THEN <<>>
    ELSE LET r == CHOOSE x \in rows : TRUE
         IN  <<r.value>> \o RowValues(rows \ {r})

FiveDefaults == <<DEFAULT_RANK, DEFAULT_RANK, DEFAULT_RANK, DEFAULT_RANK, DEFAULT_RANK>>

\* get_rank, times 5: sum(sorted(ranks)[:5]).
get_rank(tbl, pid, discipline, end_date) ==
    LET found == RowValues(RankRowsInWindow(tbl, pid, discipline, end_date))
    IN  SumSeq(SubSeq(Sorted(FiveDefaults \o found), 1, 5))

\* Lines 74-80: the finishers of a race, by place.  LIKE 'DN%' ignores case.
IsFinisher(res) ==
    /\ res.place \notin {"dnf", "dns", "DNF", "DNS"}
    /\ CastInteger(res.place) > 0

RECURSIVE InsertByPlace(_, _)
InsertByPlace(x, s) ==
    IF s = <<>> THEN <<x>>
    ELSE IF CastInteger(x.place) < CastInteger(Head(s).place) THEN <<x>> \o s
         ELSE <<Head(s)>> \o InsertByPlace(x, Tail(s))

RECURSIVE ByPlace(_)
ByPlace(s) == IF s = <<>> THEN <<>> ELSE InsertByPlace(Head(s), ByPlace(Tail(s)))

Finishers(results) == ByPlace(SelectSeq(results, IsFinisher))

Scale(n) == 250 * n * (n - 1)

\* int(x) of the number num / den, den > 0: truncation towards zero.
Trunc(num, den) == IF num >= 0 THEN num \div den ELSE -((-num) \div den)

\* A variant of RaceFigures that spreads the slope over n places, not n - 1.
RaceFigures_PerPlaceByN(tbl, discipline, race_date, finishers) ==
    LET n == Len(finishers)
        prior == [i \in 1..n |-> get_rank(tbl, finishers[i].person, discipline, race_date)]
        top10 == [i \in 1..(IF n < 10 THEN n ELSE 10) |-> prior[i]]
        top_ranks == [i \in 1..5 |-> 5 * DEFAULT_RANK] \o top10
        min_rank == Sorted(top_ranks)[1] * 50 * n * (n - 1)
        top_average == SumSeq(SubSeq(Sorted(top_ranks), 1, 5)) * 10 * n * (n - 1)
        all_average == SumSeq(prior) * 50 * (n - 1)
        value == ((IF all_average < top_average /\ all_average > min_rank
                   THEN all_average ELSE top_average) * 9) \div 10
        per_place == ((all_average - value) * 2) \div n
    IN  [n |-> n, min_rank |-> min_rank, top_average |-> top_average,
         all_average |-> all_average, value |-> value, per_place |-> per_place]

\* A variant of RaceFigures that always takes the average of the top five.
RaceFigures_AlwaysTop(tbl, discipline, race_date, finishers) ==
    LET n == Len(finishers)
        prior == [i \in 1..n |-> get_rank(tbl, finishers[i].person, discipline, race_date)]
        top10 == [i \in 1..(IF n < 10 THEN n ELSE 10) |-> prior[i]]
        top_ranks == [i \in 1..5 |-> 5 * DEFAULT_RANK] \o top10
        min_rank == Sorted(top_ranks)[1] * 50 * n * (n - 1)
        top_average == SumSeq(SubSeq(Sorted(top_ranks), 1, 5)) * 10 * n * (n - 1)
        all_average == SumSeq(prior) * 50 * (n - 1)
        value == (top_average * 9) \div 10
        per_place == ((all_average - value) * 2) \div (n - 1)
    IN  [n |-> n, min_rank |-> min_rank, top_average |-> top_average,
         all_average |-> all_average, value |-> value, per_place |-> per_place]

\* Lines 85-93: the figures of a race from the prior ranks of its finishers,
\* each multiplied by Scale(n).
RaceFigures(tbl, discipline, race_date, finishers) ==
    LET n == Len(finishers)
        prior == [i \in 1..n |-> get_rank(tbl, finishers[i].person, discipline, race_date)]
        top10 == [i \in 1..(IF n < 10 THEN n ELSE 10) |-> prior[i]]
        \* five 600s and the first ten prior ranks, each times 5
        top_ranks == [i \in 1..5 |-> 5 * DEFAULT_RANK] \o top10
        min_rank == Sorted(top_ranks)[1] * 50 * n * (n - 1)
        top_average == SumSeq(SubSeq(Sorted(top_ranks), 1, 5)) * 10 * n * (n - 1)
        all_average == SumSeq(prior) * 50 * (n - 1)
        value == ((IF all_average < top_average /\ all_average > min_rank
                   THEN all_average ELSE top_average) * 9) \div 10
        per_place == ((all_average - value) * 2) \div (n - 1)
    IN  [n |-> n, min_rank |-> min_rank, top_average |-> top_average,
         all_average |-> all_average, value |-> value, per_place |-> per_place]

\* A variant of RankValue without the ceiling.
RankValue_NoCeiling(fig, place) ==
    Trunc(fig.value + (PlaceInt[place] - 1) * fig.per_place, Scale(fig.n))

\* Lines 103-104: the Rank value of a finisher.
RankValue(fig, place) ==
    LET rank == fig.value + (PlaceInt[place] - 1) * fig.per_place
    IN  IF rank <= RANK_CEILING * Scale(fig.n) THEN Trunc(rank, Scale(fig.n)) ELSE RANK_CEILING

\* A variant of NewRankRows that rates a finisher by its position in the list.
NewRankRows_ByIndex(fig, discipline, rc, finishers) ==
    {[result |-> finishers[i].id, person |-> finishers[i].person, race |-> rc.id,
      date |-> rc.date, discipline |-> discipline,
      value |-> LET rank == fig.value + (i - 1) * fig.per_place
                IN  IF rank <= RANK_CEILING * Scale(fig.n)
                    THEN Trunc(rank, Scale(fig.n)) ELSE RANK_CEILING] : i \in DOMAIN finishers}

\* Lines 102-105: one Rank row per finisher.
NewRankRows(fig, discipline, rc, finishers) ==
    {[result |-> finishers[i].id, person |-> finishers[i].person, race |-> rc.id,
      date |-> rc.date, discipline |-> discipline,
      value |-> RankValue(fig, finishers[i].place)] : i \in DOMAIN finishers}

\* Line 100: the Quality row; value and points_per_place are IntegerFields.
NewQualityRows(fig, discipline, rc) ==
    {[race |-> rc.id, discipline |-> discipline,
      value |-> Trunc(fig.value, Scale(fig.n)),
      points_per_place |-> Trunc(fig.per_place, Scale(fig.n))]}

(***************************************************************************)
(* The races the rank pass can meet: a race is its category list and its   *)
(* results, each a person and a place.                                     *)
(***************************************************************************)
RankPersons == 1..12

Entry(pid, place) == [person |-> pid, place |-> place]

Twelve == <<"1", "2", "3", "4", "5", "6", "7", "8", "9", "10", "11", "12">>

RankFields ==
    { \* twelve finishers, persons 1..12 in this order
      [categories |-> <<3>>, results |-> [i \in 1..12 |-> Entry(i, Twelve[i])]],
      \* twelve finishers, in the reverse order
      [categories |-> <<3>>, results |-> [i \in 1..12 |-> Entry(13 - i, Twelve[i])]],
      \* three finishers
      [categories |-> <<4>>, results |-> <<Entry(1, "1"), Entry(2, "2"), Entry(3, "3")>>],
      \* two finishers and three who did not finish
      [categories |-> <<4>>, results |-> <<Entry(1, "1"), Entry(2, "2"), Entry(3, "dnf"),
                                            Entry(4, "dns"), Entry(5, "dq")>>],
      \* tied places and places with gaps
      [categories |-> <<4, 5>>, results |-> <<Entry(2, "1"), Entry(1, "2"), Entry(3, "2"),
                                               Entry(4, "5"), Entry(5, "dnf")>>],
      \* a race without categories
      [categories |-> <<>>, results |-> <<Entry(1, "1"), Entry(2, "2"), Entry(3, "3")>>] }

\* Rows a previous run, of this or of another discipline, left in the tables.
OldRanks ==
    { [result |-> 1, person |-> 1, race |-> 90, date |-> 18000, discipline |-> "road", value |-> 300],
      [result |-> 2, person |-> 2, race |-> 90, date |-> 18000, discipline |-> "road", value |-> 310],
      [result |-> 3, person |-> 1, race |-> 91, date |-> 18000, discipline |-> "cyclocross", value |-> 320],
      [result |-> 4, person |-> 2, race |-> 91, date |-> 18001, discipline |-> "cyclocross", value |-> 330] }

OldQualities ==
    { [race |-> 90, discipline |-> "road", value |-> 300, points_per_place |-> 10],
      [race |-> 91, discipline |-> "cyclocross", value |-> 320, points_per_place |-> 10] }

NoRankRace ==
    [id |-> 0, date |-> 0, categories |-> <<>>, results |-> <<>>, finishers |-> <<>>,
     rated |-> FALSE,
     figures |-> [n |-> 0, min_rank |-> 0, top_average |-> 0, all_average |-> 0,
                  value |-> 0, per_place |-> 0]]

RankStart ==
    /\ rank_discipline \in {"road", "cyclocross"}
    /\ ranks = OldRanks
    /\ qualities = OldQualities
    /\ rank_race = NoRankRace
    /\ rated = 0
    /\ rank_pc = "delete"

\* No function is called alone.
FnIdle ==
    /\ call = <<>>
    /\ ret = <<>>

\* No recompute is under way.
RecIdle ==
    /\ db = <<>>
    /\ points = <<>>
    /\ snapshots = <<>>
    /\ tx_pc = "none"
    /\ tx_saved = <<>>
    /\ run = 0
    /\ first = <<>>
    /\ failure = ""

RankIdle ==
    /\ rank_discipline = "road"
    /\ ranks = {}
    /\ qualities = {}
    /\ rank_race = NoRankRace
    /\ rated = 0
    /\ rank_pc = "idle"

\* A variant of RowsKept that deletes nothing.
RowsKept_All(tbl, discipline) == tbl

\* Lines 44-57: what the two deletes leave of a table, the rows of the other
\* disciplines.
RowsKept(tbl, discipline) == {r \in tbl : r.discipline # discipline}

\* Lines 44-57: the Rank and Quality rows of the discipline are deleted.
DeleteRanks ==
    /\ rank_pc = "delete"
    /\ ranks' = RowsKept(ranks, rank_discipline)
    /\ qualities' = RowsKept(qualities, rank_discipline)
    /\ rank_pc' = "races"
    /\ UNCHANGED << rank_discipline, rank_race, rated, sumVars, recVars, fnVars >>

\* Race dates of the rank pass: 18001 + 365 = 18366 is the first day of the
\* window that ends on 18366, 18000 is before it.
RankDays == {18000, 18001, 18366}

\* A variant of NextRaceDays: the races come in any order.
NextRaceDays_Unordered == RankDays

\* Line 63: the races come by ascending date.
NextRaceDays == {d \in RankDays : d >= rank_race.date}

\* A variant of Unrated: only races with fewer than two finishers are skipped.
Unrated_FewerThanTwo(finishers) == Len(finishers) < 2

\* Line 82: a race with at most two finishers is not rated.
Unrated(finishers) == Len(finishers) <= 2

\* Lines 65-106: one race of the loop.  Races without categories are not in
\* the query (line 62); a race with at most two finishers gets no row.
RateRace ==
    /\ rank_pc = "races"
    /\ rated < MaxRaces
    /\ \E day \in NextRaceDays, f \in RankFields :
         LET id == rated + 1
             results == [i \in DOMAIN f.results |->
                            [id |-> 100 * id + i, person |-> f.results[i].person,
                             place |-> f.results[i].place]]
             finishers == Finishers(results)
             rc == [id |-> id, date |-> day, categories |-> f.categories,
                    results |-> results, finishers |-> finishers,
                    rated |-> FALSE, figures |-> NoRankRace.figures]
         IN  IF f.categories = <<>> \/ Unrated(finishers)
             THEN /\ rank_race' = rc
                  /\ UNCHANGED << ranks, qualities >>
             ELSE \E fig \in {RaceFigures(ranks, rank_discipline, day, finishers)} :
                  /\ rank_race' = [rc EXCEPT !.rated = TRUE, !.figures = fig]
                  /\ qualities' = qualities \cup NewQualityRows(fig, rank_discipline, rc)
                  /\ ranks' = ranks \cup NewRankRows(fig, rank_discipline, rc, finishers)
    /\ rated' = rated + 1
    /\ UNCHANGED << rank_discipline, rank_pc, sumVars, recVars, fnVars >>

vars == << sumVars, rankVars, recVars, fnVars >>

Init == SumStart(UpgradeDisciplines) /\ RankIdle /\ RecIdle /\ FnIdle

Next == ProcessResult

Spec == Init /\ [][Next]_vars

RankInit == SumStart({"road"}) /\ RankStart /\ RecIdle /\ FnIdle

RankNext == DeleteRanks \/ RateRace

SpecRank == RankInit /\ [][RankNext]_vars

(***************************************************************************)
(* A season of one discipline, rated from the empty tables the deletes of  *)
(* lines 44-58 leave: one race a day, long enough for riders to have five  *)
(* Rank rows in the window of get_rank.  A team event gives all the riders *)
(* of a team the same place.                                               *)
(***************************************************************************)
MaxSeasonRaces == 9

SeasonFields ==
    { \* a team of five, all placed first
      [categories |-> <<3>>, results |-> [i \in 1..5 |-> Entry(i, "1")]],
      \* three of them, placed 1, 2, 3
      [categories |-> <<3>>, results |-> <<Entry(1, "1"), Entry(2, "2"), Entry(3, "3")>>],
      \* the five, placed 1..5
      [categories |-> <<3>>, results |-> [i \in 1..5 |-> Entry(i, Twelve[i])]] }

SeasonStart ==
    /\ rank_discipline = "road"
    /\ ranks = {}
    /\ qualities = {}
    /\ rank_race = NoRankRace
    /\ rated = 0
    /\ rank_pc = "races"

\* Lines 65-106 for the next race of the season.
RateSeasonRace ==
    /\ rank_pc = "races"
    /\ rated < MaxSeasonRaces
    /\ \E f \in SeasonFields :
         LET id == rated + 1
             day == 18000 + rated
             results == [i \in DOMAIN f.results |->
                            [id |-> 100 * id + i, person |-> f.results[i].person,
                             place |-> f.results[i].place]]
             finishers == Finishers(results)
             rc == [id |-> id, date |-> day, categories |-> f.categories,
                    results |-> results, finishers |-> finishers,
                    rated |-> FALSE, figures |-> NoRankRace.figures]
         IN  \E fig \in {RaceFigures(ranks, rank_discipline, day, finishers)} :
                  /\ rank_race' = [rc EXCEPT !.rated = TRUE, !.figures = fig]
                  /\ qualities' = qualities \cup NewQualityRows(fig, rank_discipline, rc)
                  /\ ranks' = ranks \cup NewRankRows(fig, rank_discipline, rc, finishers)
    /\ rated' = rated + 1
    /\ UNCHANGED << rank_discipline, rank_pc, sumVars, recVars, fnVars >>

SeasonInit == SumStart({"road"}) /\ SeasonStart /\ RecIdle /\ FnIdle

SeasonNext == RateSeasonRace

SpecSeason == SeasonInit /\ [][SeasonNext]_vars

(***************************************************************************)
(* commands.cli: the full recompute of a discipline, lines 29-48, inside   *)
(* one db.atomic('IMMEDIATE') block: recalculate_points, then              *)
(* calculate_race_ranks, then sum_points.  The cli of this version passes  *)
(* incremental=False and tests the value recalculate_points returns; the   *)
(* model takes the three passes to run in this order.  A failure, of a     *)
(* pass or of the process, undoes everything the block has written.        *)
(***************************************************************************)
MaxRuns == 2

RecPersons == {1, 2, 3}

\* NAME_RE matches the names of the persons of a recompute.
RecValidName(p) == p \in RecPersons

\* Person.id -> position of (last_name, first_name) in the NOCASE collation.
RecNameRank == [p \in RecPersons |-> p]

\* The fields and the result lists of the races of a recompute.
RecFields ==
    { Field("Category Men", <<4>>, 80),
      Field("Category Men", <<3>>, 80),
      Field("Category Men", <<1, 2>>, 80) }

RecResults ==
    { <<Entry(1, "1"), Entry(2, "2"), Entry(3, "3")>>,
      <<Entry(3, "1"), Entry(1, "2"), Entry(2, "3")>>,
      <<Entry(2, "1"), Entry(1, "2"), Entry(3, "dnf")>> }

RecRace(id, day, f, entries) ==
    [id |-> id, name |-> f.name, date |-> day, categories |-> f.categories,
     starters |-> f.starters, discipline |-> EventDiscipline[upgrade_discipline],
     results |-> [i \in DOMAIN entries |->
                     [id |-> 100 * id + i, person |-> entries[i].person,
                      place |-> entries[i].place]]]

\* The Race rows of the discipline with their Result rows, by date and arrival.
Databases ==
    { << RecRace(1, 18000, f1, e1), RecRace(2, day, f2, e2) >> :
         f1 \in RecFields, e1 \in RecResults, day \in {18000, 18366},
         f2 \in RecFields, e2 \in RecResults }

ResultIds(d) == UNION {{d[i].results[j].id : j \in DOMAIN d[i].results} : i \in DOMAIN d}

\* Points rows an earlier run left for the results.
OldPoints(d) ==
    [id \in ResultIds(d) |->
        << [NewPoints(3) EXCEPT !.sum_value = 3, !.sum_categories = {5}] >>]

NoSnapshot == -1

\* The Rank, Quality and Points rows and the OBRA snapshots.
Tables == [points |-> points, ranks |-> ranks, qualities |-> qualities,
           snapshots |-> snapshots]

Derived(t) == << t.points, t.ranks, t.qualities >>

RecStart ==
    /\ db \in Databases
    /\ points = OldPoints(db)
    /\ snapshots = [p \in RecPersons |-> NoSnapshot]
    /\ tx_pc = "idle"
    /\ tx_saved = Tables
    /\ run = 1
    /\ first = Derived(Tables)
    /\ failure = ""

\* The rank pass of a recompute works on the discipline of the recompute.
RecRankStart ==
    /\ rank_discipline = upgrade_discipline
    /\ ranks = OldRanks
    /\ qualities = OldQualities
    /\ rank_race = NoRankRace
    /\ rated = 0
    /\ rank_pc = "idle"

\* commands.py line 29: BEGIN IMMEDIATE.
Begin ==
    /\ tx_pc = "idle"
    /\ run <= MaxRuns
    /\ tx_saved' = Tables
    /\ tx_pc' = "recalc_delete"
    /\ failure' = ""
    /\ UNCHANGED << db, points, snapshots, run, first, ranks, qualities,
                    rank_discipline, rank_race, rated, rank_pc, sumVars, fnVars >>

\* recalculate_points, lines 29-35: the Points rows of the discipline are deleted.
RecalcDelete ==
    /\ tx_pc = "recalc_delete"
    /\ points' = [id \in ResultIds(db) |-> <<>>]
    /\ tx_pc' = "recalc_insert"
    /\ UNCHANGED << db, snapshots, tx_saved, run, first, failure, rankVars, sumVars, fnVars >>

\* The race a result belongs to.
RaceOf(d, id) == d[CHOOSE i \in DOMAIN d : \E j \in DOMAIN d[i].results : d[i].results[j].id = id]

ResultOf(d, id) ==
    LET rc == RaceOf(d, id)
    IN  rc.results[CHOOSE j \in DOMAIN rc.results : rc.results[j].id = id]

\* recalculate_points, lines 37-78: the rows of the qualifying results are inserted.
RecalcInsert ==
    /\ tx_pc = "recalc_insert"
    /\ points' = [id \in ResultIds(db) |->
                     RecalculatedPoints(RaceOf(db, id), ResultOf(db, id).place,
                                        RecValidName(ResultOf(db, id).person))]
    /\ tx_pc' = "rank_delete"
    /\ UNCHANGED << db, snapshots, tx_saved, run, first, failure, rankVars, sumVars, fnVars >>

\* calculate_race_ranks, lines 44-57.
RecRankDelete ==
    /\ tx_pc = "rank_delete"
    /\ ranks' = RowsKept(ranks, rank_discipline)
    /\ qualities' = RowsKept(qualities, rank_discipline)
    /\ rated' = 0
    /\ tx_pc' = "rank_races"
    /\ UNCHANGED << db, points, snapshots, tx_saved, run, first, failure,
                    rank_discipline, rank_race, rank_pc, sumVars, fnVars >>

\* calculate_race_ranks, lines 65-106: the next race of the query.
RecRateRace ==
    /\ tx_pc = "rank_races"
    /\ rated < Len(db)
    /\ LET rc == db[rated + 1]
           finishers == Finishers(rc.results)
       IN  IF rc.categories = <<>> \/ Unrated(finishers)
           THEN UNCHANGED << ranks, qualities >>
           ELSE \E fig \in {RaceFigures(ranks, rank_discipline, rc.date, finishers)} :
                  /\ qualities' = qualities \cup NewQualityRows(fig, rank_discipline, rc)
                  /\ ranks' = ranks \cup NewRankRows(fig, rank_discipline, rc, finishers)
    /\ rated' = rated + 1
    /\ tx_pc' = IF rated + 1 = Len(db) THEN "sum" ELSE "rank_races"
    /\ UNCHANGED << db, points, snapshots, tx_saved, run, first, failure,
                    rank_discipline, rank_race, rank_pc, sumVars, fnVars >>

\* The results of the discipline with their races, lines 94-112.
RECURSIVE AllResults(_)
AllResults(d) ==
    IF d = <<>> THEN <<>>
    ELSE [j \in DOMAIN Head(d).results |->
             [id |-> Head(d).results[j].id, person |-> Head(d).results[j].person,
              place |-> Head(d).results[j].place,
              race |-> [id |-> Head(d).id, name |-> Head(d).name, date |-> Head(d).date,
                        categories |-> Head(d).categories, starters |-> Head(d).starters,
                        discipline |-> Head(d).discipline],
              points |-> <<>>]] \o AllResults(Tail(d))

\* ORDER BY last_name, first_name, Race.date, Race.created (lines 109-112).
QueryBefore(a, b) ==
    \/ RecNameRank[a.person] < RecNameRank[b.person]
    \/ /\ RecNameRank[a.person] = RecNameRank[b.person]
       /\ \/ a.race.date < b.race.date
          \/ a.race.date = b.race.date /\ a.race.id < b.race.id

RECURSIVE InsertInQueryOrder(_, _)
InsertInQueryOrder(x, s) ==
    IF s = <<>> THEN <<x>>
    ELSE IF QueryBefore(x, Head(s)) THEN <<x>> \o s
         ELSE <<Head(s)>> \o InsertInQueryOrder(x, Tail(s))

RECURSIVE SumQueryOrder(_)
SumQueryOrder(s) ==
    IF s = <<>> THEN <<>> ELSE InsertInQueryOrder(Head(s), SumQueryOrder(Tail(s)))

\* Lines 114-120: the locals before the first result.
StartLocals ==
    [person |-> NoPerson, is_woman |-> FALSE, cat_points |-> <<>>, categories |-> {9},
     prev_race_categories |-> <<>>, upgrade_notes |-> {}, upgrade_race |-> NoRace,
     points |-> <<>>, raised |-> "", rule |-> "none"]

\* A variant of get_obra_data that fetches the member page every time.
get_obra_data_AlwaysScrape(snaps, pid, scraped) == scraped

\* get_obra_data: the category of the stored snapshot of the person; without
\* one, scrape_person stores what the site says today (scraped, -1 when the
\* request fails).
get_obra_data(snaps, pid, scraped) ==
    IF snaps[pid] # NoSnapshot THEN snaps[pid] ELSE scraped

\* Whether the loop body, with locals L, asks for the OBRA data of the result (line 170).
AsksObraWith(L, res) ==
    /\ NUMBER_RE(res.place)
    /\ res.race.categories \in ELITE
    /\ (IF L.person # res.person THEN {9} ELSE L.categories) = {9}

\* Lines 122-233: the loop of sum_points over the results todo; the Points
\* table and the snapshots it leaves, and the exception that ended it.
RECURSIVE SumLoop(_, _, _, _, _)
SumLoop(L, todo, tbl, snaps, scraped) ==
    IF todo = <<>> THEN [points |-> tbl, snapshots |-> snaps, raised |-> ""]
    ELSE LET res == [Head(todo) EXCEPT !.points = tbl[Head(todo).id]]
             asks == AsksObraWith(L, res)
             obra_category == IF asks THEN get_obra_data(snaps, res.person, scraped) ELSE 0
             after == LoopBody(L, res, obra_category)
         IN  IF after.raised # ""
             THEN [points |-> tbl, snapshots |-> snaps, raised |-> after.raised]
             ELSE SumLoop(after, Tail(todo), [tbl EXCEPT ![res.id] = after.points],
                          IF asks THEN [snaps EXCEPT ![res.person] = obra_category] ELSE snaps,
                          scraped)

\* What the member pages say on the day of a run; -1: the request fails.
SiteAnswers == {-1, 1, 3}

\* A variant of Rollback: nothing encloses the passes, what they wrote stays.
Rollback_None(saved, current) == current

\* commands.py line 29: leaving the atomic block by an exception restores the
\* tables as BEGIN found them.
Rollback(saved, current) == saved

Restore(t) ==
    /\ points' = t.points
    /\ ranks' = t.ranks
    /\ qualities' = t.qualities
    /\ snapshots' = t.snapshots

\* sum_points, lines 81-233, as the third pass; an exception leaves the block.
SumPass ==
    /\ tx_pc = "sum"
    /\ \E scraped \in SiteAnswers :
         \E out \in {SumLoop(StartLocals, SumQueryOrder(AllResults(db)), points, snapshots, scraped)} :
            IF out.raised # ""
            THEN /\ Restore(Rollback(tx_saved, Tables))
                 /\ tx_pc' = "failed"
                 /\ failure' = out.raised
            ELSE /\ points' = out.points
                 /\ snapshots' = out.snapshots
                 /\ tx_pc' = "commit"
                 /\ UNCHANGED << ranks, qualities, failure >>
    /\ UNCHANGED << db, tx_saved, run, first, rank_discipline, rank_race, rated,
                    rank_pc, sumVars, fnVars >>

\* The process stops inside the block (an exception of a pass, a crash).
Fail ==
    /\ tx_pc \in {"recalc_delete", "recalc_insert", "rank_delete", "rank_races", "sum"}
    /\ Restore(Rollback(tx_saved, Tables))
    /\ failure' = tx_pc
    /\ tx_pc' = "failed"
    /\ UNCHANGED << db, tx_saved, run, first, rank_discipline, rank_race, rated,
                    rank_pc, sumVars, fnVars >>

\* commands.py line 48: the block ends, the transaction commits.
Commit ==
    /\ tx_pc = "commit"
    /\ first' = IF run = 1 THEN Derived(Tables) ELSE first
    /\ run' = run + 1
    /\ tx_pc' = "idle"
    /\ UNCHANGED << db, points, snapshots, tx_saved, failure, rankVars, sumVars, fnVars >>

RecInit == SumStart({"road", "track"}) /\ RecRankStart /\ RecStart /\ FnIdle

RecNext ==
    \/ Begin
    \/ RecalcDelete
    \/ RecalcInsert
    \/ RecRankDelete
    \/ RecRateRace
    \/ SumPass
    \/ Fail
    \/ Commit

SpecRecompute == RecInit /\ [][RecNext]_vars

(***************************************************************************)
(* get_points_schedule and the scoring of one result by recalculate_points,*)
(* taken alone: the race and the place are drawn first, then the lookup    *)
(* and the insert act on them.                                             *)
(***************************************************************************)
MaxStarters == 1000

\* Event.discipline: the disciplines DISCIPLINE_MAP knows.
EventDisciplines == UNION {DISCIPLINE_MAP[d] : d \in DOMAIN DISCIPLINE_MAP}

\* 2019-08-30 and 2019-08-31.
ScheduleDays == {SCHEDULE_2019_DATE - 1, SCHEDULE_2019_DATE}

ScheduleCalls ==
    [race : [id : {1}, name : RaceNames, date : ScheduleDays, categories : {<<3>>},
             starters : 0..MaxStarters, discipline : EventDisciplines],
     place : {"1", "dnf"}]

NotCalled == [done |-> FALSE, schedule |-> <<>>, rows |-> <<>>]

ScheduleStart ==
    /\ call \in ScheduleCalls
    /\ ret = NotCalled

\* recalculate_points lines 43-78 for the race and the result of the call.
LookupSchedule ==
    /\ ~ret.done
    /\ ret' = [done |-> TRUE,
               schedule |-> get_points_schedule(call.race.discipline, call.race),
               rows |-> RecalculatedPoints(call.race, call.place, TRUE)]
    /\ UNCHANGED << call, sumVars, rankVars, recVars >>

ScheduleInit == SumStart({"road"}) /\ RankIdle /\ RecIdle /\ ScheduleStart

ScheduleNext == LookupSchedule

SpecSchedule == ScheduleInit /\ [][ScheduleNext]_vars

(***************************************************************************)
(* recalculate_points as a pass over the races of an upgrade discipline,   *)
(* lines 37-78: call is the race the loop is at with one of its results,   *)
(* ret counts the races done and those whose event discipline has no       *)
(* schedule.                                                               *)
(***************************************************************************)
MaxRecalcRaces == 3

\* Field sizes below every tier and inside one.
RecalcStarters == {4, 30}

RecalcStart ==
    /\ call = [race |-> [id |-> 0, name |-> "", date |-> 0, categories |-> <<>>,
                         starters |-> 0, discipline |-> ""],
               place |-> ""]
    /\ ret = [n |-> 0, unscheduled |-> 0, schedule |-> <<>>, rows |-> <<>>]

Unscheduled(race) ==
    race.discipline \notin DOMAIN (IF race.date >= SCHEDULE_2019_DATE THEN SCHEDULE_2019
                                                                     ELSE SCHEDULE_2018)

\* Lines 43-78: the next race of the query and one of its results.
RecalcRace ==
    /\ ret.n < MaxRecalcRaces
    /\ \E discipline \in DISCIPLINE_MAP[upgrade_discipline], day \in ScheduleDays,
          starters \in RecalcStarters, place \in {"1", "dnf"} :
         LET race == [id |-> ret.n + 1, name |-> "Category Men", date |-> day,
                      categories |-> <<3>>, starters |-> starters, discipline |-> discipline]
         IN  /\ call' = [race |-> race, place |-> place]
             /\ ret' = [n |-> ret.n + 1,
                        unscheduled |-> ret.unscheduled + (IF Unscheduled(race) THEN 1 ELSE 0),
                        schedule |-> get_points_schedule(discipline, race),
                        rows |-> RecalculatedPoints(race, place, TRUE)]
    /\ UNCHANGED << sumVars, rankVars, recVars >>

RecalcInit == SumStart(UpgradeDisciplines) /\ RankIdle /\ RecIdle /\ RecalcStart

RecalcNext == RecalcRace

SpecRecalc == RecalcInit /\ [][RecalcNext]_vars

(***************************************************************************)
(* A result with an unusual place string, as each of the three passes      *)
(* treats it: calculate_race_ranks (lines 74-105) for its race,            *)
(* recalculate_points (lines 51-76) for the result and one turn of the     *)
(* loop of sum_points (lines 122-233) for its rider.  The races of the     *)
(* other specifications have places that are decimal numbers or dnf, dns,  *)
(* dq only.                                                                *)
(***************************************************************************)
\* Place strings of a result.
PlaceStrings == {"1st", "abc", "", "dnf", "dns", "dq", "2"}

\* The categories the rider of the result has before it.
RiderCategories == {{9}, {3}, {4}, {5}}

\* The ledger the rider of the result has before it: empty, or the entry of
\* an earlier result without points.
PlaceLedgers == {<<>>, <<[value |-> 0, place |-> "dns", date |-> 17990]>>}

PlaceCalls ==
    [place : PlaceStrings, field : Fields, date : {18000, 18366},
     categories : RiderCategories, ledger : PlaceLedgers, obra_category : {-1, 2}]

\* The race of the call: riders 2, 3 and 4 finish first to third, rider 1 has
\* the place of the call.
PlaceRace(c) ==
    [id |-> 1, name |-> c.field.name, date |-> c.date, categories |-> c.field.categories,
     starters |-> c.field.starters, discipline |-> EventDiscipline[upgrade_discipline],
     results |-> << [id |-> 101, person |-> 2, place |-> "1"],
                    [id |-> 102, person |-> 3, place |-> "2"],
                    [id |-> 103, person |-> 1, place |-> c.place],
                    [id |-> 104, person |-> 4, place |-> "3"] >>]

\* Lines 65-105 for one race: the Rank rows created, and the exception of
\* int(result.place) (line 103) that ends the pass.
RankedRace(tbl, discipline, rc) ==
    LET finishers == Finishers(rc.results)
        bad == {i \in DOMAIN finishers : int_raises(finishers[i].place)}
        good == IF bad = {} THEN finishers ELSE SubSeq(finishers, 1, Min(bad) - 1)
    IN  IF rc.categories = <<>> \/ Unrated(finishers)
        THEN [raised |-> "", ranks |-> {}]
        ELSE [raised |-> IF bad = {} THEN "" ELSE "ValueError",
              ranks |-> NewRankRows(RaceFigures(tbl, discipline, rc.date, finishers),
                                    discipline, rc, good)]

NoPlaceCall ==
    [done |-> FALSE, rank |-> [raised |-> "", ranks |-> {}], rows |-> <<>>,
     sum |-> StartLocals]

PlaceStart ==
    /\ call \in PlaceCalls
    /\ ret = NoPlaceCall

\* The three passes meet the result of the call.
ProcessPlace ==
    /\ ~ret.done
    /\ LET rc == PlaceRace(call)
           rows == RecalculatedPoints(rc, call.place, TRUE)
           res == [id |-> 103, person |-> 1, place |-> call.place,
                   race |-> [id |-> rc.id, name |-> rc.name, date |-> rc.date,
                             categories |-> rc.categories, starters |-> rc.starters,
                             discipline |-> rc.discipline],
                   points |-> rows]
           L0 == [StartLocals EXCEPT !.person = 1, !.categories = call.categories,
                                     !.cat_points = call.ledger]
       IN  ret' = [done |-> TRUE,
                   rank |-> RankedRace({}, upgrade_discipline, rc),
                   rows |-> rows,
                   sum |-> LoopBody(L0, res, call.obra_category)]
    /\ UNCHANGED << call, sumVars, rankVars, recVars >>

PlaceInit == SumStart({"road", "cyclocross"}) /\ RankIdle /\ RecIdle /\ PlaceStart

PlaceNext == ProcessPlace

SpecPlaces == PlaceInit /\ [][PlaceNext]_vars

(***************************************************************************)
(* upgrades.get_obra_data with the dates of the snapshots, lines 400-417,  *)
(* and scrapers.scrape_person, lines 368-387.  A snapshot is its date and  *)
(* the category of the discipline asked for; (date, person) is unique.     *)
(***************************************************************************)
\* date.today() of the run, after every race and every stored snapshot.
Today == 18400

SnapshotDays == {17999, 18001, 18367}

ObraCategories == {2, 3}

\* The snapshots a person can have: at most one a day.
ObraSets ==
    UNION {{ {[date |-> d, category |-> f[d]] : d \in days} : f \in [days -> ObraCategories]} :
              days \in SUBSET SnapshotDays}

NoData == [date |-> 0, category |-> -1]

LatestOf(snaps) == CHOOSE x \in snaps : \A y \in snaps : y.date <= x.date

EarliestOf(snaps) == CHOOSE x \in snaps : \A y \in snaps : x.date <= y.date

\* A variant of get_obra_data_on: without a snapshot on or before the date it
\* takes the newest one.
get_obra_data_on_Newest(obra, date, site) ==
    LET upto == {x \in obra : x.date <= date}
    IN  IF upto # {}
        THEN [data |-> LatestOf(upto), fetches |-> 0, obra |-> obra, raised |-> ""]
        ELSE IF obra # {}
        THEN [data |-> LatestOf(obra), fetches |-> 0, obra |-> obra, raised |-> ""]
        ELSE IF site < 0
        THEN [data |-> NoData, fetches |-> 1, obra |-> obra, raised |-> "HTTPError"]
        ELSE [data |-> [date |-> Today, category |-> site], fetches |-> 1,
              obra |-> {[date |-> Today, category |-> site]}, raised |-> ""]

\* get_obra_data(person, date): obra are the person's snapshots, site is the
\* category the member page shows (-1: the request fails, raise_for_status
\* raises).  The snapshot returned, the number of requests made, the
\* snapshots afterwards and the exception raised.
get_obra_data_on(obra, date, site) ==
    LET upto == {x \in obra : x.date <= date}
    IN  IF upto # {}
        THEN [data |-> LatestOf(upto), fetches |-> 0, obra |-> obra, raised |-> ""]
        ELSE IF obra # {}
        THEN [data |-> EarliestOf(obra), fetches |-> 0, obra |-> obra, raised |-> ""]
        ELSE IF site < 0
        THEN [data |-> NoData, fetches |-> 1, obra |-> obra, raised |-> "HTTPError"]
        ELSE [data |-> [date |-> Today, category |-> site], fetches |-> 1,
              obra |-> {[date |-> Today, category |-> site]}, raised |-> ""]

ObraCalls == [obra : ObraSets, date : RaceDays, site : SiteAnswers]

ObraStart ==
    /\ call \in ObraCalls
    /\ ret = [done |-> FALSE, data |-> NoData, fetches |-> 0, obra |-> {}, raised |-> ""]

GetObraData ==
    /\ ~ret.done
    /\ \E out \in {get_obra_data_on(call.obra, call.date, call.site)} :
          ret' = [done |-> TRUE, data |-> out.data, fetches |-> out.fetches,
                  obra |-> out.obra, raised |-> out.raised]
    /\ UNCHANGED << call, sumVars, rankVars, recVars >>

ObraInit == SumStart({"road"}) /\ RankIdle /\ RecIdle /\ ObraStart

ObraNext == GetObraData

SpecObra == ObraInit /\ [][ObraNext]_vars

(***************************************************************************)
(* upgrades.print_points, lines 250-311: the upgrades block for one        *)
(* person.  The query groups the Points rows of races from start_date on   *)
(* by person; with MAX(Race.date) as its only aggregate SQLite takes the   *)
(* other columns from the row of the latest race, and HAVING tests that    *)
(* row's needs_upgrade.                                                    *)
(***************************************************************************)
\* date(cur_year - 1, 1, 1) for Today: 2019-01-01.
PrintStartDate == 17897

PrintDays == {17800, 18000, 18366}

PointsOfDay(d) ==
    {[date |-> d, needs_upgrade |-> n, sum_categories |-> c] :
        n \in BOOLEAN, c \in {{3}, {3, 4}}}

\* The Points rows of a person, at most one a race day.
PrintRows ==
    UNION {{ {f[d] : d \in days} : f \in {g \in [days -> UNION {PointsOfDay(d) : d \in days}] :
                                              \A d \in days : g[d].date = d} } :
              days \in SUBSET PrintDays}

PrintCalls == [rows : PrintRows, obra : ObraSets, site : SiteAnswers]

PrintStart ==
    /\ call \in PrintCalls
    /\ ret = [done |-> FALSE, listed |-> FALSE, reported |-> FALSE, obra_category |-> -1,
              raised |-> ""]

\* Lines 261-279: the row of the person the upgrades_needed query yields, if any.
UpgradesNeeded(rows) ==
    LET recent == {r \in rows : r.date >= PrintStartDate}
    IN  {r \in recent : (\A x \in recent : x.date <= r.date) /\ r.needs_upgrade}

\* A variant of Confirmed: a rider of exactly the category is not reported.
Confirmed_Strict(obra_category, sum_categories) == obra_category > Min(sum_categories)

\* Line 309: the site does not show the rider upgraded already.
Confirmed(obra_category, sum_categories) == obra_category >= Min(sum_categories)

\* Lines 305-310 for the person of the call.
PrintUpgrades ==
    /\ ~ret.done
    /\ IF UpgradesNeeded(call.rows) = {}
       THEN ret' = [ret EXCEPT !.done = TRUE]
       ELSE \E point \in UpgradesNeeded(call.rows) :
             \E out \in {get_obra_data_on(call.obra, point.date, call.site)} :
                ret' = [done |-> TRUE, listed |-> TRUE,
                        reported |-> out.raised = "" /\ Confirmed(out.data.category, point.sum_categories),
                        obra_category |-> out.data.category,
                        raised |-> out.raised]
    /\ UNCHANGED << call, sumVars, rankVars, recVars >>

PrintInit == SumStart({"road"}) /\ RankIdle /\ RecIdle /\ PrintStart

PrintNext == PrintUpgrades

SpecPrint == PrintInit /\ [][PrintNext]_vars

(***************************************************************************)
(* upgrades.needs_upgrade taken alone, lines 350-373, on the categories    *)
(* and the ledger of a rider; points_sum is the sum of the ledger, as both *)
(* callers pass it (lines 155 and 220).                                    *)
(***************************************************************************)
MaxLedger == 5

\* Entries of a ledger: a win with points, a fourth place without.
LedgerEntries ==
    { [value |-> 25, place |-> "1", date |-> 18000],
      [value |-> 0, place |-> "4", date |-> 18000] }

Ledgers == UNION {[1..n -> LedgerEntries] : n \in 0..MaxLedger}

NeedsCategories == {{1}, {2}, {1, 2}, {3}, {9}}

NeedsCalls ==
    [discipline : UpgradeDisciplines, categories : NeedsCategories, cat_points : Ledgers]

NeedsStart ==
    /\ call \in NeedsCalls
    /\ ret = [done |-> FALSE, needs |-> FALSE, raised |-> ""]

NeedsUpgrade ==
    /\ ~ret.done
    /\ ret' = [done |-> TRUE,
               raised |-> needs_upgrade_raises(call.discipline, call.categories),
               needs |-> IF needs_upgrade_raises(call.discipline, call.categories) # ""
                         THEN FALSE
                         ELSE needs_upgrade(call.discipline, SumValues(call.cat_points),
                                            call.categories, call.cat_points)]
    /\ UNCHANGED << call, sumVars, rankVars, recVars >>

NeedsInit == SumStart({"road"}) /\ RankIdle /\ RecIdle /\ NeedsStart

NeedsNext == NeedsUpgrade

SpecNeeds == NeedsInit /\ [][NeedsNext]_vars

(***************************************************************************)
(* sum_points as a whole pass over the results of two riders, run once and *)
(* run again on the Points rows the first run left.  The history has one   *)
(* race on each of three days; the rows the first run meets are those      *)
(* recalculate_points left.  The two riders have different names or the    *)
(* same first and last name.                                               *)
(***************************************************************************)
MaxSumRuns == 2

PassPersons == {1, 2}

PassDays == <<18000, 18001, 18373>>

PassFields ==
    { Field("Category Men", <<4>>, 80),
      Field("Category Men", <<3, 4>>, 80),
      Field("Category Women", <<5>>, 4) }

PassEntries == [person : PassPersons, field : PassFields, place : Places]

PassCalls == [entries : [DOMAIN PassDays -> PassEntries], same_name : BOOLEAN]

\* The Result rows of the history with their races, by date.
PassResults(c) ==
    [i \in DOMAIN PassDays |->
        [id |-> i, person |-> c.entries[i].person, place |-> c.entries[i].place,
         race |-> [id |-> i, name |-> c.entries[i].field.name, date |-> PassDays[i],
                   categories |-> c.entries[i].field.categories,
                   starters |-> c.entries[i].field.starters,
                   discipline |-> EventDiscipline[upgrade_discipline]],
         points |-> <<>>]]

\* The results of one rider, by date.
PassResultsOf(c, p) ==
    LET Mine(r) == r.person = p
    IN  SelectSeq(PassResults(c), Mine)

\* Lines 109-112: ORDER BY last_name, first_name, Race.date, Race.created.
\* Riders of different names come one after the other, rider 1 first; riders
\* of the same name are not told apart by the ordering.
PassQuery(c) ==
    IF c.same_name THEN PassResults(c)
    ELSE PassResultsOf(c, 1) \o PassResultsOf(c, 2)

\* The Points rows recalculate_points leaves for the results.
PassTable(c) ==
    [i \in DOMAIN PassDays |->
        RecalculatedPoints(PassResults(c)[i].race, PassResults(c)[i].place, TRUE)]

PassSnapshots == [p \in PassPersons |-> NoSnapshot]

PassStart ==
    /\ call \in PassCalls
    /\ ret = [runs |-> 0, points |-> PassTable(call), first |-> PassTable(call), raised |-> ""]

\* One run of sum_points, lines 81-233; @db.atomic undoes the rows of a run that raises.
RunSumPoints ==
    /\ ret.runs < MaxSumRuns
    /\ ret.raised = ""
    /\ \E out \in {SumLoop(StartLocals, PassQuery(call), ret.points, PassSnapshots, 3)} :
          ret' = IF out.raised # ""
                 THEN [ret EXCEPT !.raised = out.raised]
                 ELSE [runs |-> ret.runs + 1, points |-> out.points,
                       first |-> IF ret.runs = 0 THEN out.points ELSE ret.first,
                       raised |-> ""]
    /\ UNCHANGED << call, sumVars, rankVars, recVars >>

PassInit == SumStart({"road", "cyclocross"}) /\ RankIdle /\ RecIdle /\ PassStart

PassNext == RunSumPoints

SpecPasses == PassInit /\ [][PassNext]_vars

\* The rows a run over the results of rider p alone leaves.
C34_Alone(p) ==
    SumLoop(StartLocals, PassResultsOf(call, p), PassTable(call), PassSnapshots, 3)

\* C34: the Points rows a completed run of sum_points leaves for the results
\* of a rider are the rows a run over the results of that rider alone leaves,
\* whether the other rider has another name or the same name.
C34_RowsIndependentOfOthers ==
    ret.runs >= 1 =>
        \A p \in PassPersons :
            C34_Alone(p).raised = "" =>
                \A i \in DOMAIN PassDays :
                    call.entries[i].person = p => ret.first[i] = C34_Alone(p).points[i]

\* C38: a second run of sum_points on the Points rows the first run left,
\* without recalculate_points in between, leaves every row as it was and
\* creates none.
C38_SecondRunChangesNothing == ret.runs = 2 => ret.points = ret.first


(***************************************************************************)
(* Claims about sum_points, checked under Spec.                            *)
(***************************************************************************)

\* C1: the competitor's category set is non-empty before and after every
\* result sum_points processes, whatever the places and race category sets.
C1_CategoriesNeverEmpty == categories # {}

\* C2: after each result is processed every ledger entry is at most 372 days
\* older than the result's race date, and, unless a category change clears the
\* ledger, the entries that were on the ledger and are less than 373 days old
\* are exactly the ones still on it, before the new entry.
C2_ExpiryInvariant ==
    [][ (processed' = processed + 1 /\ raised' = "") =>
          /\ \A i \in DOMAIN cat_points' :
                result'.race.date - cat_points'[i].date <= 372
          /\ (person' = person /\ rule' \notin {"upgrade", "out_of_band", "downgrade"}) =>
                LET Young(e) == result'.race.date - e.date < 373
                IN  SubSeq(cat_points', 1, Len(cat_points') - 1) = SelectSeq(cat_points, Young)
      ]_vars

\* C2 witness: a result was processed whose row carries an EXPIRED note (an
\* entry 373 days old was removed) while an entry exactly 372 days old is
\* still on the ledger.
C2_Witness ==
    /\ raised = ""
    /\ result.points # <<>>
    /\ \E n \in result.points[1].notes : n.text = "{} POINTS HAVE EXPIRED" /\ n.n > 0
    /\ \E i \in DOMAIN cat_points : result.race.date - cat_points[i].date = 372

\* C10: for a competitor whose categories are the sentinel {9}, a result with
\* a numeric place in a race with a non-empty, non-elite category list R sets
\* categories to the set of R, and a Points row with that category set exists
\* for the result.
C10_BootstrapAdoptsR ==
    [][ ( /\ processed' = processed + 1
          /\ (IF person' # person THEN {9} ELSE categories) = {9}
          /\ result'.place \in NumericPlaces
          /\ result'.race.categories # <<>>
          /\ result'.race.categories \notin ELITE ) =>
          /\ categories' = SeqToSet(result'.race.categories)
          /\ result'.points # <<>>
          /\ result'.points[1].sum_categories = SeqToSet(result'.race.categories)
      ]_vars

(***************************************************************************)
(* Claims about the rank pass, checked under SpecRank.                     *)
(***************************************************************************)
NewRanks == {r \in ranks : r.race = rank_race.id}

\* C3: every Rank row calculate_race_ranks creates has value <= 590.
C3_RankAtMost590 ==
    \A r \in ranks : (r.discipline = rank_discipline /\ rank_pc = "races") => r.value <= 590

\* C3 witness: a finisher whose value before the ceiling is above 590 has a
\* Rank row of 590.
C3_Witness ==
    /\ rank_race.rated
    /\ \E i \in DOMAIN rank_race.finishers :
         /\ rank_race.figures.value
              + (PlaceInt[rank_race.finishers[i].place] - 1) * rank_race.figures.per_place
            > 590 * Scale(rank_race.figures.n)
         /\ \E r \in NewRanks : r.result = rank_race.finishers[i].id /\ r.value = 590

\* The Rank rows of a person the claim's window holds: the discipline's, dated
\* from asOfDate - 365 to asOfDate, both ends included.
C4_Window(pid, asOfDate) ==
    {r \in ranks : /\ r.person = pid
                   /\ r.discipline = rank_discipline
                   /\ asOfDate - 365 <= r.date
                   /\ r.date <= asOfDate}

\* Five times the mean of the 5 lowest of: five 600s and the values of rows.
\* With t the fifth lowest value, it is the sum of the values below t plus t
\* for each of the remaining places.
C4_FiveLowestSum(rows) ==
    LET Below(t) == {r \in rows : r.value < t}
        UpTo(t) == {r \in rows : r.value <= t}
        DefaultsBelow(t) == IF 600 < t THEN 5 ELSE 0
        DefaultsUpTo(t) == IF 600 <= t THEN 5 ELSE 0
        t == CHOOSE x \in {r.value : r \in rows} \cup {600} :
                /\ Cardinality(Below(x)) + DefaultsBelow(x) < 5
                /\ Cardinality(UpTo(x)) + DefaultsUpTo(x) >= 5
    IN  SumSeq(RowValues(Below(t))) + 600 * DefaultsBelow(t)
          + (5 - Cardinality(Below(t)) - DefaultsBelow(t)) * t

C6_NoLookahead ==
    [][ rated' = rated + 1 =>
          /\ ranks \subseteq ranks'
          /\ qualities \subseteq qualities'
          /\ \A r \in ranks' : r.discipline = rank_discipline => r.date <= rank_race'.date
          /\ rank_race'.rated =>
               rank_race'.figures =
                  RaceFigures({r \in ranks : r.date <= rank_race'.date}, rank_discipline,
                              rank_race'.date, rank_race'.finishers)
      ]_vars

\* C6 witness: a race rated from the Rank rows of earlier races (its field
\* average is below the default 600).
C6_Witness ==
    /\ rank_race.rated
    /\ rated >= 2
    /\ rank_race.figures.all_average < 600 * Scale(rank_race.figures.n)

\* The race of scenario A: twelve finishers placed 1..12, all of prior rank 600.
C8_ScenarioA ==
    /\ rank_race.rated
    /\ [i \in DOMAIN rank_race.finishers |-> rank_race.finishers[i].place] = Twelve
    /\ rank_race.figures.all_average = 600 * Scale(12)
    /\ rank_race.figures.min_rank = 600 * Scale(12)

C8_RowOfPlace(k) == CHOOSE r \in NewRanks : r.result = rank_race.finishers[k].id

\* C8 as stated: in scenario A minRank = topAverage = allAverage = 600, the
\* quality value is 540, pointsPerPlace is 120/11, and the Rank rows are
\* 540 + (k - 1) x 120/11 for places k = 1..11 (550.91 for the 2nd, to the
\* nearest integer at least) and 590 for the 12th.
C8_ScenarioA_AsStated ==
    C8_ScenarioA =>
        /\ rank_race.figures.top_average = 600 * Scale(12)
        /\ rank_race.figures.value = 540 * Scale(12)
        /\ 11 * rank_race.figures.per_place = 120 * Scale(12)
        /\ \A k \in 1..11 :
              LET diff == 11 * C8_RowOfPlace(k).value - (11 * 540 + (k - 1) * 120)
              IN  2 * diff <= 11 /\ 2 * diff >= -11
        /\ C8_RowOfPlace(12).value = 590

\* C8 amended: in scenario A minRank = topAverage = allAverage = 600, the
\* quality value is 540, pointsPerPlace is 120/11, and the Rank rows are the
\* integer parts 540, 550, 561, 572, 583 for places 1..5 and the ceiling 590
\* for places 6..12.
C8_ScenarioA_Amended ==
    C8_ScenarioA =>
        /\ rank_race.figures.top_average = 600 * Scale(12)
        /\ rank_race.figures.value = 540 * Scale(12)
        /\ 11 * rank_race.figures.per_place = 120 * Scale(12)
        /\ [k \in 1..12 |-> C8_RowOfPlace(k).value]
             = <<540, 550, 561, 572, 583, 590, 590, 590, 590, 590, 590, 590>>

\* C8 witness: the race of scenario A has been rated.
C8_Witness == C8_ScenarioA /\ Cardinality(NewRanks) = 12

\* A race of the query (it has categories) with at most 2 finishers was processed.
C9_SmallRace ==
    /\ rank_race.id > 0
    /\ rank_race.categories # <<>>
    /\ Len(rank_race.finishers) <= 2

\* C9 as stated: a qualifying race with at most 2 finishers gets the Quality
\* row (0, 0) and no Rank row.
C9_SmallRace_AsStated ==
    C9_SmallRace =>
        /\ \E q \in qualities : q.race = rank_race.id /\ q.value = 0 /\ q.points_per_place = 0
        /\ NewRanks = {}

\* C9 amended: a qualifying race with at most 2 finishers gets no Quality row
\* and no Rank row.
C9_SmallRace_Amended ==
    C9_SmallRace =>
        /\ ~ \E q \in qualities : q.race = rank_race.id
        /\ NewRanks = {}

\* C9 witness: a race with exactly two finishers (and results that are not
\* finishes) was processed.
C9_Witness ==
    /\ C9_SmallRace
    /\ Len(rank_race.finishers) = 2
    /\ Len(rank_race.results) > 2

\* The Rank rows of the race just rated are one for each finisher and none
\* for another result.
C29_OneRowPerFinisher ==
    /\ Cardinality(NewRanks) = Len(rank_race.finishers)
    /\ \A i \in DOMAIN rank_race.finishers :
          \E r \in NewRanks : r.result = rank_race.finishers[i].id
    /\ \A i \in DOMAIN rank_race.results :
          rank_race.results[i].place \in {"dnf", "dns", "dq"} =>
              ~ \E r \in NewRanks : r.result = rank_race.results[i].id

\* The row of the race just rated for its finisher at position i.
C29_Row(i) == CHOOSE r \in NewRanks : r.result = rank_race.finishers[i].id

\* The stored value v is min(590, x) for the figure x (times Scale(n)), to
\* the integer: 590 when x is above 590, else within one of x.
C29_Stores(v, x) ==
    IF x > 590 * Scale(rank_race.figures.n)
    THEN v = 590
    ELSE /\ (v - 1) * Scale(rank_race.figures.n) < x
         /\ x < (v + 1) * Scale(rank_race.figures.n)

\* C29 as stated: a rated race gets one Rank row per finisher and none for
\* the others, and the finisher at zero-based position i by ascending place
\* gets min(590, qualityValue + i x pointsPerPlace), whatever the places
\* (tied, or with gaps).
C29_RankByPosition_AsStated ==
    rank_race.rated =>
        /\ C29_OneRowPerFinisher
        /\ \A i \in DOMAIN rank_race.finishers :
              C29_Stores(C29_Row(i).value,
                         rank_race.figures.value + (i - 1) * rank_race.figures.per_place)

\* C29 amended: a rated race gets one Rank row per finisher and none for the
\* others, and the finisher of place p gets 590 when qualityValue + (p - 1) x
\* pointsPerPlace is above 590 and the integer part of that figure otherwise.
C29_RankByPlace_Amended ==
    rank_race.rated =>
        /\ C29_OneRowPerFinisher
        /\ \A i \in DOMAIN rank_race.finishers :
              LET x == rank_race.figures.value
                         + (PlaceInt[rank_race.finishers[i].place] - 1) * rank_race.figures.per_place
                  v == C29_Row(i).value
              IN  IF x > 590 * Scale(rank_race.figures.n)
                  THEN v = 590
                  ELSE /\ v * Scale(rank_race.figures.n) <= x
                       /\ x < (v + 1) * Scale(rank_race.figures.n)

\* C29 witness: a race with tied places and a gap in the places, and a
\* result that is not a finish, has been rated.
C29_Witness ==
    /\ rank_race.rated
    /\ [i \in DOMAIN rank_race.finishers |-> rank_race.finishers[i].place] = <<"1", "2", "2", "5">>
    /\ Len(rank_race.results) = 5
    /\ Cardinality(NewRanks) = 4

\* The race rated by the step, its finishers and their number.
C30_Finishers == rank_race'.finishers

C30_N == Len(C30_Finishers)

\* Five times the prior rank of each finisher, from the Rank rows before the race.
C30_Prior ==
    [i \in 1..C30_N |->
        get_rank(ranks, C30_Finishers[i].person, rank_discipline, rank_race'.date)]

\* Five 600s and the prior ranks of the first up to 10 finishers (times 5), ascending.
C30_TopList ==
    Sorted(<<3000, 3000, 3000, 3000, 3000>> \o SubSeq(C30_Prior, 1, IF C30_N < 10 THEN C30_N ELSE 10))

\* topAverage, minRank and allAverage, each times 250 n.
C30_TopAverage == 10 * C30_N * SumSeq(SubSeq(C30_TopList, 1, 5))

C30_MinRank == 50 * C30_N * C30_TopList[1]

C30_AllAverage == 50 * SumSeq(C30_Prior)

\* 0.9 x (allAverage if allAverage < topAverage and allAverage > minRank else
\* topAverage), times 250 n.
C30_QualityValue ==
    (9 * (IF C30_AllAverage < C30_TopAverage /\ C30_AllAverage > C30_MinRank
          THEN C30_AllAverage ELSE C30_TopAverage)) \div 10

\* The Quality row of the race rated by the step.
C30_Stored == CHOOSE q \in qualities' : q.race = rank_race'.id /\ q.discipline = rank_discipline

C30_Case == rated' = rated + 1 /\ rank_race'.rated

C31_SameDatePriorFixed ==
    [][(rated' = rated + 1 /\ rank_race'.rated) =>
          \A i \in DOMAIN rank_race'.finishers :
              get_rank(ranks, rank_race'.finishers[i].person, rank_discipline, rank_race'.date)
                = get_rank({r \in ranks : r.discipline # rank_discipline \/ r.date # rank_race'.date},
                           rank_race'.finishers[i].person, rank_discipline, rank_race'.date)]_vars

\* The Rank rows stored for the race rated last.
C35_Rows == {r \in ranks : r.race = rank_race.id /\ r.discipline = rank_discipline}

\* C35: in every rated race pointsPerPlace is >= 0, and among the Rank rows of
\* the race a finisher with a worse place never has a lower Rank than a
\* finisher with a better place.
C35_PerPlaceNonNegative ==
    rank_race.rated =>
        /\ rank_race.figures.per_place >= 0
        /\ \A i, j \in DOMAIN rank_race.finishers :
              PlaceInt[rank_race.finishers[i].place] < PlaceInt[rank_race.finishers[j].place] =>
                  \A r, q \in C35_Rows :
                      (r.result = rank_race.finishers[i].id /\ q.result = rank_race.finishers[j].id)
                          => r.value <= q.value

(***************************************************************************)
(* Claims about the full recompute, checked under SpecRecompute.           *)
(***************************************************************************)

C7_RowsBefore ==
    IF run = 1 THEN << OldPoints(db), OldRanks, OldQualities >> ELSE first

PointsBased == {"road", "cyclocross", "track"}

\* The case of C11: the same rider, of known categories, finishes with a
\* numeric place in a race whose categories R are disjoint from and more
\* skilled than the rider's, and the eligible-upgrade rule does not fire.
C11_Case ==
    /\ processed' = processed + 1
    /\ upgrade_discipline \in PointsBased
    /\ person' = person
    /\ categories \notin {{9}, {}}
    /\ result'.place \in NumericPlaces
    /\ result'.race.categories # <<>>
    /\ categories \cap SeqToSet(result'.race.categories) = {}
    /\ Min(categories) > Min(SeqToSet(result'.race.categories))
    /\ rule' # "upgrade"

\* C11: in that case categories becomes {max(R)}, the ledger is emptied (it
\* then holds the entry of this result alone), and the result's row carries
\* 'PREMATURELY UPGRADED TO' exactly when can_upgrade for max(R), with the
\* race count checked, fails on the ledger before the result, and the plain
\* 'UPGRADED TO' otherwise.
C11_OutOfBandUpgrade ==
    [][ C11_Case =>
          LET R == SeqToSet(result'.race.categories)
              ledger == KeptPoints(cat_points, result'.race.date)
              points_sum == SumValues(ledger)
              can == can_upgrade(upgrade_discipline, points_sum, Max(R), ledger, TRUE)
          IN  /\ categories' = {Max(R)}
              /\ Len(cat_points') = 1
              /\ cat_points'[1].date = result'.race.date
              /\ result'.points # <<>>
              /\ PrematureNote(Max(R), points_sum) \in result'.points[1].notes <=> ~can
              /\ UpgradedNote(Max(R), points_sum) \in result'.points[1].notes <=> can
      ]_vars

\* C11 witness (scenario D): a rider was moved up out of band to category 2
\* with a PREMATURELY UPGRADED note, the ledger holding this result alone.
C11_Witness ==
    /\ raised = ""
    /\ rule = "out_of_band"
    /\ upgrade_discipline \in PointsBased
    /\ categories = {2}
    /\ Len(cat_points) = 1
    /\ result.points # <<>>
    /\ \E n \in result.points[1].notes :
          n.text = "PREMATURELY UPGRADED TO {} WITH {} POINTS" /\ n.n = 2

(***************************************************************************)
(* Claims about the points schedules, checked under SpecSchedule.          *)
(***************************************************************************)
\* The schedule generation and the table the claim names for a race.
C12_Generation(race) == IF race.date >= 18139 THEN SCHEDULE_2019 ELSE SCHEDULE_2018

C12_Table(race) ==
    LET gen == C12_Generation(race)
    IN  IF race.name \in {"Category Women", "Junior Men"} /\ "women" \in DOMAIN gen[race.discipline]
        THEN gen[race.discipline]["women"]
        ELSE gen[race.discipline]["open"]

C12_Matching(race) ==
    {i \in DOMAIN C12_Table(race) :
        C12_Table(race)[i].min <= race.starters /\ race.starters <= C12_Table(race)[i].max}

\* C12: get_points_schedule returns the points of the first tier whose
\* [min, max] holds race.starters, of the 2019 schedule from 2019-08-31 on and
\* of the 2018 schedule before, of the women's table for a women/junior field
\* where the discipline has one and of the open table otherwise; cyclocross,
\* open, 30 starters, from 2019-08-31 on gives [5,4,3,2,1].
C12_ScheduleLookup ==
    ret.done =>
        /\ (call.race.discipline \in DOMAIN C12_Generation(call.race) /\ C12_Matching(call.race) # {}) =>
              ret.schedule = C12_Table(call.race)[Min(C12_Matching(call.race))].points
        /\ ( /\ call.race.discipline = "cyclocross"
             /\ call.race.name = "Category Men"
             /\ call.race.starters = 30
             /\ call.race.date >= 18139 ) => ret.schedule = <<5, 4, 3, 2, 1>>

\* C12 witness (scenario E): the lookup for cyclocross, open field, 30
\* starters on 2019-08-31 has returned.
C12_Witness ==
    /\ ret.done
    /\ call.race.discipline = "cyclocross"
    /\ call.race.name = "Category Men"
    /\ call.race.starters = 30
    /\ call.race.date = 18139
    /\ ret.schedule = <<5, 4, 3, 2, 1>>

\* The tiers of every table of both schedule generations.
C13_Tables ==
    UNION {UNION {{gen[d][f] : f \in DOMAIN gen[d]} : d \in DOMAIN gen} :
              gen \in {SCHEDULE_2018, SCHEDULE_2019}}

\* C13: in every generation, discipline and field table the tier ranges are
\* pairwise disjoint, so at most one tier holds a starter count; a starter
\* count in no tier gives an empty points array and recalculate_points
\* creates no Points row for a result of the race.
C13_TiersDisjoint ==
    /\ \A t \in C13_Tables : \A i, j \in DOMAIN t :
          i # j => (t[i].max < t[j].min \/ t[j].max < t[i].min)
    /\ (ret.done /\ call.race.discipline \in DOMAIN C12_Generation(call.race)) =>
          /\ Cardinality(C12_Matching(call.race)) <= 1
          /\ C12_Matching(call.race) = {} => (ret.schedule = <<>> /\ ret.rows = <<>>)

\* C13 witness: a first place in a scheduled discipline, in a field smaller
\* than every tier, got no Points row.
C13_Witness ==
    /\ ret.done
    /\ call.race.discipline = "cyclocross"
    /\ call.race.starters = 5
    /\ call.place = "1"
    /\ C12_Matching(call.race) = {}
    /\ ret.schedule = <<>>
    /\ ret.rows = <<>>

(***************************************************************************)
(* Claims about the recalculate_points pass, checked under SpecRecalc.     *)
(***************************************************************************)
C14_NoSchedule == {"gravel", "time_trial", "mountain_bike", "downhill", "super_d",
                   "short_track", "track"}

\* C14: for a race of an event discipline without a points schedule
\* get_points_schedule returns an empty array and no result of the race is
\* scored; the pass goes on, and a first place in a later race of a scheduled
\* discipline and a field of 30 gets its Points row.
C14_UnscheduledSkipped ==
    /\ (ret.n > 0 /\ call.race.discipline \in C14_NoSchedule) =>
          (ret.schedule = <<>> /\ ret.rows = <<>>)
    /\ ( /\ ret.n > 0
         /\ call.race.discipline \notin C14_NoSchedule
         /\ call.race.starters = 30
         /\ call.place = "1" ) => ret.rows # <<>>
    /\ (ret.n < MaxRecalcRaces) => ENABLED RecalcRace

\* C14 witness: a race was scored after a race without a schedule was passed over.
C14_Witness ==
    /\ ret.n >= 2
    /\ ret.unscheduled >= 1
    /\ call.race.discipline \notin C14_NoSchedule
    /\ ret.rows # <<>>

(***************************************************************************)
(* Claims about unusual place strings, checked under SpecPlaces.           *)
(***************************************************************************)
C15_Markers == {"dnf", "dns", "dq", "DNF", "DNS", "DQ"}

\* C15: a result whose place is neither a decimal number nor a DNF/DNS/DQ
\* marker gets no Rank row and no points and changes no category, and none
\* of calculate_race_ranks, recalculate_points and sum_points fails on it.
C15_OddPlaceSkipped ==
    (ret.done /\ call.place \notin NumericPlaces \cup C15_Markers) =>
        /\ ret.rank.raised = ""
        /\ \A r \in ret.rank.ranks : r.result # 103
        /\ ret.rows = <<>>
        /\ ret.sum.raised = ""
        /\ ret.sum.categories = call.categories
        /\ ret.sum.cat_points[Len(ret.sum.cat_points)].value = 0

(***************************************************************************)
(* Claims about get_obra_data, checked under SpecObra.                     *)
(***************************************************************************)

\* C16: get_obra_data returns the snapshot of the greatest date <= asOfDate
\* when there is one; otherwise the snapshot of the smallest date after
\* asOfDate; without any snapshot it fetches exactly once and returns the
\* snapshot it stored (when the request succeeds); it never fetches when the
\* person has a snapshot.
C16_SnapshotChoice ==
    ret.done =>
        LET before == {x \in call.obra : x.date <= call.date}
            after == {x \in call.obra : x.date > call.date}
        IN  /\ before # {} =>
                  (ret.data \in before /\ \A x \in before : x.date <= ret.data.date)
            /\ (before = {} /\ after # {}) =>
                  (ret.data \in after /\ \A x \in after : ret.data.date <= x.date)
            /\ call.obra # {} => (ret.fetches = 0 /\ ret.obra = call.obra)
            /\ call.obra = {} => ret.fetches = 1
            /\ (call.obra = {} /\ call.site >= 0) =>
                  (ret.obra = {ret.data} /\ ret.data.category = call.site)

\* C16 witness: with two snapshots after the date asked for and none before,
\* the earlier of the two was returned without a fetch.
C16_Witness ==
    /\ ret.done
    /\ call.date = 18000
    /\ Cardinality(call.obra) = 2
    /\ \A x \in call.obra : x.date > 18000
    /\ ret.data.date = 18001
    /\ ret.fetches = 0

(***************************************************************************)
(* Claims about the OBRA lookups of sum_points, checked under Spec.        *)
(***************************************************************************)

\* C17: a failing fetch of a rider's OBRA data does not abort the pass: no
\* sum_points pass is ended by the exception of the request.
C17_FetchFailureNotFatal == raised # "HTTPError"

(***************************************************************************)
(* Claims about print_points, checked under SpecPrint.                     *)
(***************************************************************************)
\* The person's Points row of the latest race since the start date, when it
\* is flagged needs-upgrade.
C18_Flagged ==
    {r \in call.rows : /\ r.date >= 17897
                       /\ r.needs_upgrade
                       /\ \A x \in call.rows : x.date <= r.date}

\* C18: a person whose Points row is flagged needs-upgrade is reported in the
\* upgrades block exactly when the OBRA category is >= min(sum_categories) of
\* the row; with a lower OBRA category the person is not reported.
C18_ReportedIffNotUpgraded ==
    (ret.done /\ ret.raised = "") =>
        /\ \A r \in C18_Flagged :
              ret.reported <=> ret.obra_category >= Min(r.sum_categories)
        /\ C18_Flagged = {} => ~ret.reported

\* C18 witness: a flagged rider of categories {3, 4} whom the site shows in
\* category 3 was reported.
C18_Witness ==
    /\ ret.done
    /\ ret.raised = ""
    /\ \E r \in C18_Flagged : r.sum_categories = {3, 4}
    /\ ret.obra_category = 3
    /\ ret.reported

\* The ledger and the categories the loop body holds when it reaches the
\* category logic for the result of the next state: the locals of this state,
\* reset if the person changes, with the expired points removed.
C19_Ledger ==
    KeptPoints(IF person # result'.person THEN <<>> ELSE cat_points, result'.race.date)

C19_Categories == IF person # result'.person THEN {9} ELSE categories

\* C19: the eligible-upgrade rule fires only when max(categories) - 1 is a
\* category of the race and can_upgrade and needs_upgrade hold on the ledger
\* as it is before the result is appended; when it fires, categories becomes
\* {max(categories) - 1}, the ledger is cleared (it holds this result's point
\* alone afterwards) and the note saved with the result is 'UPGRADED TO <cat>
\* WITH <sum> POINTS' with the sum of the ledger before it was cleared.
C19_EligibleUpgrade ==
    [][rule' = "upgrade" =>
          LET upgrade_category == Max(C19_Categories) - 1
              points_sum == SumValues(C19_Ledger)
          IN  /\ upgrade_category \in SeqToSet(result'.race.categories)
              /\ can_upgrade(upgrade_discipline, points_sum, upgrade_category, C19_Ledger, FALSE)
              /\ needs_upgrade(upgrade_discipline, points_sum, C19_Categories, C19_Ledger)
              /\ categories' = {upgrade_category}
              /\ Len(cat_points') = 1
              /\ cat_points'[1].date = result'.race.date
              /\ Note("UPGRADED TO {} WITH {} POINTS", upgrade_category, points_sum)
                     \in result'.points[1].notes
              /\ \A n \in result'.points[1].notes :
                     n.text = "UPGRADED TO {} WITH {} POINTS" => n.m = points_sum]_vars

\* The rule has fired on a ledger that held points.
C19_Witness ==
    /\ rule = "upgrade"
    /\ raised = ""
    /\ \E n \in result.points[1].notes :
          n.text = "UPGRADED TO {} WITH {} POINTS" /\ n.m > 0
    /\ Len(cat_points) = 1

\* The points recalculate_points awarded to the result of the next state.
C20_Awarded ==
    LET P == RecalculatedPoints(result'.race, result'.place, ValidName(result'.person))
    IN  IF P = <<>> THEN 0 ELSE P[1].value

\* A rider already flagged as a woman has a scored result in a race that is
\* not a women's race, of categories R disjoint from hers and less skilled,
\* and neither the eligible-upgrade rule nor the rule of the more skilled
\* races matches; the turn of the loop completes.
C20_Case ==
    /\ processed' = processed + 1
    /\ raised' = ""
    /\ person = result'.person
    /\ is_woman
    /\ ~NameHasWomen(result'.race.name)
    /\ NUMBER_RE(result'.place)
    /\ result'.race.categories # <<>>
    /\ categories # {}
    /\ LET R == SeqToSet(result'.race.categories)
           ledger == KeptPoints(cat_points, result'.race.date)
       IN  /\ categories \cap R = {}
           /\ Max(categories) < Max(R)
           /\ ~(Min(categories) > Min(R))
           /\ ~(/\ Max(categories) - 1 \in R
                /\ can_upgrade(upgrade_discipline, SumValues(ledger), Max(categories) - 1,
                               ledger, FALSE)
                /\ needs_upgrade(upgrade_discipline, SumValues(ledger), categories, ledger)
                /\ prev_race_categories # result'.race.categories)

\* C20: a flagged woman racing below her category in a race that is not a
\* women's race carries no penalty: categories, the entries the ledger holds
\* (those expire_points kept) and the race of the last category change are
\* unchanged, and the points awarded to the result are appended to the
\* ledger and left on its Points row unzeroed.
C20_WomenExemptionFrame ==
    [][C20_Case =>
          /\ categories' = categories
          /\ upgrade_race' = upgrade_race
          /\ cat_points' = Append(KeptPoints(cat_points, result'.race.date),
                                  [value |-> C20_Awarded, place |-> result'.place,
                                   date |-> result'.race.date])
          /\ result'.points # <<>> =>
                /\ result'.points[1].value = C20_Awarded
                /\ \A n \in result'.points[1].notes :
                       n.text \notin {"NO POINTS FOR RACING BELOW CATEGORY", "DOWNGRADED TO {}"}]_vars

\* The exemption has applied to a result that was awarded points, on a
\* ledger that held an earlier entry.
C20_Witness ==
    /\ rule = "women_exempt"
    /\ raised = ""
    /\ is_woman
    /\ ~NameHasWomen(result.race.name)
    /\ Len(cat_points) >= 2
    /\ cat_points[Len(cat_points)].value > 0
    /\ categories \cap SeqToSet(result.race.categories) = {}

\* The locals the loop body holds when it reaches the category logic for the
\* result of the next state: those of this state, reset if the person changes
\* (lines 124-131), the ledger with the expired points removed (line 139).
CategoriesBefore == IF person # result'.person THEN {9} ELSE categories

LedgerBefore ==
    KeptPoints(IF person # result'.person THEN <<>> ELSE cat_points, result'.race.date)

IsWomanBefore == IF person # result'.person THEN FALSE ELSE is_woman

UpgradeRaceBefore == IF person # result'.person THEN NoRace ELSE upgrade_race

\* The rules whose result leaves the rider with another category set.
ChangingRules == {"upgrade", "bootstrap", "bootstrap_obra", "out_of_band", "downgrade", "refine"}

\* C21: an administrative downgrade happens only on a result below the
\* rider's category, with an empty ledger, more than 365 days after the last
\* result at which the rider's category set changed (first adoption and
\* refinement included): when the rider's previous result changed the
\* categories 365 days ago or less, or the ledger holds an entry, the result
\* is not a downgrade.
C21_DowngradeOnlyAfterAYear ==
    [][rule' = "downgrade" =>
          /\ LedgerBefore = <<>>
          /\ ~(/\ person = result'.person
               /\ rule \in ChangingRules
               /\ categories # {9}
               /\ result'.race.date - result.race.date <= 365)]_vars

\* The result of the next state has a numeric place in a categorised race, and
\* its turn of the loop completes.
ScoredStep ==
    /\ processed' = processed + 1
    /\ raised' = ""
    /\ NUMBER_RE(result'.place)
    /\ result'.race.categories # <<>>
    /\ CategoriesBefore # {}

\* The eligible-upgrade rule matches the result of the next state.
EligibleUpgradeBefore ==
    /\ Max(CategoriesBefore) - 1 \in SeqToSet(result'.race.categories)
    /\ can_upgrade(upgrade_discipline, SumValues(LedgerBefore), Max(CategoriesBefore) - 1,
                   LedgerBefore, FALSE)
    /\ needs_upgrade(upgrade_discipline, SumValues(LedgerBefore), CategoriesBefore, LedgerBefore)
    /\ (IF person # result'.person THEN <<>> ELSE prev_race_categories) # result'.race.categories

\* The race of the next state is below the rider's category and no earlier rule matches.
BelowBefore ==
    /\ ScoredStep
    /\ ~EligibleUpgradeBefore
    /\ CategoriesBefore \cap SeqToSet(result'.race.categories) = {}
    /\ ~(Min(CategoriesBefore) > Min(SeqToSet(result'.race.categories)))
    /\ Max(CategoriesBefore) < Max(SeqToSet(result'.race.categories))

\* A result that was awarded points, raced below the rider's category, neither
\* exempt as a woman's result in a men's race nor a downgrade.
C22_Case ==
    /\ BelowBefore
    /\ ~(IsWomanBefore /\ ~NameHasWomen(result'.race.name))
    /\ ~(SumValues(LedgerBefore) = 0 /\ result'.race.date - UpgradeRaceBefore.date > 365)
    /\ RecalculatedPoints(result'.race, result'.place, ValidName(result'.person)) # <<>>

C23_RefinementProperSubset ==
    [][rule' = "refine" =>
          LET common == CategoriesBefore \cap SeqToSet(result'.race.categories)
          IN  /\ Cardinality(CategoriesBefore) > 1
              /\ common # {}
              /\ common # CategoriesBefore
              /\ categories' = common
              /\ categories' # {}]_vars

\* None of the four transition rules matches the result of the next state.
C24_Case ==
    /\ ScoredStep
    /\ ~EligibleUpgradeBefore
    /\ LET R == SeqToSet(result'.race.categories)
       IN  /\ ~(CategoriesBefore \cap R = {} /\ Min(CategoriesBefore) > Min(R))
           /\ ~(CategoriesBefore \cap R = {} /\ Max(CategoriesBefore) < Max(R))
           /\ ~(/\ Cardinality(CategoriesBefore \cap R) < Cardinality(CategoriesBefore)
                /\ Cardinality(CategoriesBefore) > 1)

\* What the claim and its amendment share: categories and the race of the
\* last category change are unchanged, and the ledger changes only by the
\* expiry and by the entry of this result, with the points it was awarded.
C24_Frame ==
    /\ categories' = CategoriesBefore
    /\ upgrade_race' = UpgradeRaceBefore
    /\ cat_points' =
          Append(LedgerBefore,
                 [value |-> LET P == RecalculatedPoints(result'.race, result'.place,
                                                        ValidName(result'.person))
                            IN  IF P = <<>> THEN 0 ELSE P[1].value,
                  place |-> result'.place, date |-> result'.race.date])

\* C24 as stated: when no transition rule matches a scored result, categories,
\* the women flag and the race of the last category change are unchanged and
\* the ledger changes only by expiry and by the entry of this result.
C24_NoRule_AsStated ==
    [][C24_Case => (C24_Frame /\ is_woman' = IsWomanBefore)]_vars

\* C24 amended: as stated, but the women flag is raised when the race is a
\* women's race (it is set before the rules are evaluated) and unchanged otherwise.
C24_NoRule_Amended ==
    [][C24_Case =>
          (C24_Frame /\ is_woman' = (IsWomanBefore \/ NameHasWomen(result'.race.name)))]_vars

\* No rule has matched a result that was awarded points, of a rider whose
\* ledger already held an entry.
C24_Witness ==
    /\ rule = "none"
    /\ raised = ""
    /\ NUMBER_RE(result.place)
    /\ result.race.categories # <<>>
    /\ Len(cat_points) >= 2
    /\ cat_points[Len(cat_points)].value > 0
    /\ categories \subseteq SeqToSet(result.race.categories)

\* What sum_points leaves of the rider of the call: the categories and the
\* race of the last category change as they were, and the ledger with the
\* entries kept at the date of the race followed by the entry of the result.
C25_Untouched ==
    /\ ret.sum.raised = ""
    /\ ret.sum.categories = call.categories
    /\ ret.sum.upgrade_race = NoRace
    /\ Len(ret.sum.cat_points) = Len(KeptPoints(call.ledger, call.date)) + 1

\* C25 as stated: a result whose place is a DNF, DQ or DNS marker, or whose
\* race has no categories, never changes the rider's categories, never clears
\* the ledger and never changes the race of the last category change.
C25_MarkersSkipped_AsStated ==
    (ret.done /\ (call.place \in {"dnf", "dq", "dns"} \/ call.field.categories = <<>>)) =>
        C25_Untouched

\* C25 amended: the same of a result whose place is a DNS marker or another
\* string that does not begin with a number, dnf or dq, or whose race has no
\* categories.
C25_MarkersSkipped_Amended ==
    (ret.done /\ (call.place \in {"dns", "abc", ""} \/ call.field.categories = <<>>)) =>
        C25_Untouched

\* A DNS result in a race that would have given an unknown rider its
\* categories, for a rider with an entry in the ledger.
C25_Witness ==
    /\ ret.done
    /\ call.place = "dns"
    /\ call.categories = {9}
    /\ call.field.categories = <<4>>
    /\ call.ledger # <<>>
    /\ call.date = 18000
    /\ Len(ret.sum.cat_points) = 2

\* C26: the ledger holds an entry for a result only if the result has a
\* numeric place in a categorised race: a DNS, DNF or DQ result, or a result
\* of an uncategorised race, leaves no entry in the ledger.
C26_LedgerOnlyScored ==
    (/\ ret.done
     /\ ret.sum.raised = ""
     /\ (call.place \in {"dns", "dnf", "dq"} \/ call.field.categories = <<>>)) =>
        \A i \in DOMAIN ret.sum.cat_points : ret.sum.cat_points[i].date # call.date

\* The number of entries of the ledger of the call with a place among the first three.
C27_Podiums ==
    Cardinality({i \in DOMAIN call.cat_points : call.cat_points[i].place \in {"1", "2", "3"}})

\* C27 as stated: needs_upgrade never fires when max(categories) - 1 is 0,
\* in every discipline and for every ledger.
C27_TopTierNeverFires_AsStated ==
    (ret.done /\ Max(call.categories) - 1 = 0) => ~ret.needs

\* C27 amended: with max(categories) - 1 = 0, needs_upgrade never fires in
\* the points-based disciplines (road, cyclocross, track); in mountain bike it
\* fires exactly when the ledger holds at least 5 finishes in the first three.
C27_TopTierNeverFires_Amended ==
    (ret.done /\ Max(call.categories) - 1 = 0) =>
        /\ ret.raised = ""
        /\ call.discipline # "mountain_bike" => ~ret.needs
        /\ call.discipline = "mountain_bike" => (ret.needs <=> C27_Podiums >= 5)

\* A road rider of category 1 with 125 points was not flagged.
C27_Witness ==
    /\ ret.done
    /\ call.discipline = "road"
    /\ call.categories = {1}
    /\ SumValues(call.cat_points) = 125
    /\ ~ret.needs

\* The Points row sum_points wrote for the result of the state.
C28_Row == result.points[1]

\* The category max(categories) - 1 has a configured maximum in the discipline of the pass.
C28_PointsBased ==
    /\ Max(categories) - 1 \in DOMAIN UPGRADES[upgrade_discipline]
    /\ "max" \in DOMAIN UPGRADES[upgrade_discipline][Max(categories) - 1]

\* C28: every Points row sum_points writes has needs_upgrade set, and the
\* note 'NEEDS UPGRADE', if and only if needs_upgrade fires on the rider's
\* categories and ledger after the result is appended; for a category with a
\* configured maximum that is exactly when sum_value is at least the maximum
\* of category max(categories) - 1.
C28_FlagIffNeedsUpgrade ==
    (processed > 0 /\ raised = "" /\ result.points # <<>>) =>
        /\ C28_Row.needs_upgrade <=>
              needs_upgrade(upgrade_discipline, SumValues(cat_points), categories, cat_points)
        /\ C28_Row.needs_upgrade <=> (\E n \in C28_Row.notes : n.text = "NEEDS UPGRADE")
        /\ C28_Row.sum_value = SumValues(cat_points)
        /\ C28_PointsBased =>
              (C28_Row.needs_upgrade <=>
                  C28_Row.sum_value >= UPGRADES[upgrade_discipline][Max(categories) - 1].max)

\* A row of a road or cyclocross rider has been flagged.
C28_Witness ==
    /\ processed > 0
    /\ raised = ""
    /\ result.points # <<>>
    /\ C28_PointsBased
    /\ C28_Row.needs_upgrade
    /\ \E n \in C28_Row.notes : n.text = "NEEDS UPGRADE"

\* The rider's preceding result, of any kind, is the result of this state.
C32_SamePerson == person # NoPerson /\ person = result'.person /\ person = result.person

\* C32: the eligible-upgrade rule never fires on a result whose race category
\* list equals the race category list of the rider's immediately preceding
\* result, of any kind; on a scored result whose list differs from it, with
\* the upgrade category in R, can_upgrade and needs_upgrade, it fires.
C32_NotOnRepeatedCategoryList ==
    [][/\ (/\ processed' = processed + 1
           /\ C32_SamePerson
           /\ result.race.categories = result'.race.categories)
          => rule' # "upgrade"
       /\ (/\ ScoredStep
           /\ C32_SamePerson
           /\ Max(categories) - 1 \in SeqToSet(result'.race.categories)
           /\ can_upgrade(upgrade_discipline, SumValues(LedgerBefore), Max(categories) - 1,
                          LedgerBefore, FALSE)
           /\ needs_upgrade(upgrade_discipline, SumValues(LedgerBefore), categories, LedgerBefore)
           /\ result.race.categories # result'.race.categories)
          => rule' = "upgrade"]_vars

\* The ledger as it was before line 214 appended the entry of this result.
C32_LedgerBeforeAppend == SubSeq(cat_points, 1, Len(cat_points) - 1)

\* A scored result on which no rule fired although the upgrade category is
\* in R and both predicates held on the ledger the rules saw: the race
\* category list is the one of the preceding result.
C32_Witness ==
    /\ rule = "none"
    /\ raised = ""
    /\ processed >= 2
    /\ NUMBER_RE(result.place)
    /\ cat_points # <<>>
    /\ Max(categories) - 1 \in SeqToSet(result.race.categories)
    /\ can_upgrade(upgrade_discipline, SumValues(C32_LedgerBeforeAppend), Max(categories) - 1,
                   C32_LedgerBeforeAppend, FALSE)
    /\ needs_upgrade(upgrade_discipline, SumValues(C32_LedgerBeforeAppend), categories,
                     C32_LedgerBeforeAppend)

\* C33: needs_upgrade and can_upgrade return for every upgrade discipline of
\* DISCIPLINE_MAP, every category set and every ledger the pass reaches: no
\* turn of the loop ends in the KeyError of a missing key of UPGRADES.
C33_SchedulesComplete == raised # "KeyError"

\* C36: a result noted 'UPGRADED TO' or 'PREMATURELY UPGRADED TO' leaves the
\* rider in one category, strictly smaller than the smallest category the
\* rider had before.
C36_UpgradeToMoreSkilled ==
    [][(/\ processed' = processed + 1
        /\ raised' = ""
        /\ rule' \in {"upgrade", "out_of_band"})
          => /\ Cardinality(categories') = 1
             /\ Max(categories') < Min(CategoriesBefore)]_vars

=============================================================================
